---- MODULE Spec2Model ----
(***************************************************************************)
(* State-machine model of the LevelDB write path: SkipList (db/skiplist.h), *)
(* BlockBuilder (table/block_builder.cc), FilterBlockBuilder and            *)
(* FilterBlockReader (table/filter_block.cc), TableBuilder                  *)
(* (table/table_builder.cc), Arena (util/arena.cc) and TableCache           *)
(* (db/table_cache.cc).  Each component has its own specification           *)
(* (SkipSeqSpec, SkipConcSpec, BlockSpec, FilterSpec, TableSpec,            *)
(* TableOptionsSpec, ArenaSpec, TableCacheSpec); the variables of the other *)
(* components stay at their constructed value.  SkipConcLiveSpec adds the   *)
(* fairness of the reader thread to SkipConcSpec.                           *)
(***************************************************************************)
EXTENDS Integers, Sequences, FiniteSets, TLC

VARIABLES
  \* SkipList
  nodeKey,      \* Node::key of every allocated node; node 0 is head_
  next_,        \* Node::next_ of every allocated node: level -> link
  max_height_,  \* SkipList::max_height_
  w,            \* the writer thread's position inside Insert and its locals
  rd,           \* a reader thread: Contains / Iterator position and locals
  hist,         \* history: keys whose Insert was invoked / has returned /
                \* whether the key of the reader's Contains was among the
                \* latter when the Contains started
  scan,         \* history: keys visited since the last SeekToFirst; the node
                \* a Next, if it was the last call, came from
  torn,         \* history: a reader loaded a link that was never written
  \* BlockBuilder
  bb,           \* the BlockBuilder's members
  bbAdded,      \* history: the (key, value) pairs given to Add since Reset
  \* FilterBlockBuilder, FilterBlockReader
  policy_,      \* the filter policy
  fb,           \* the FilterBlockBuilder's members
  fbHist,       \* history: the StartBlock / AddKey calls made on fb
  fr,           \* the last KeyMayMatch query on the finished block
  \* TableBuilder
  rep_,         \* TableBuilder::rep_
  file,         \* the bytes appended to the WritableFile
  snappy_,      \* whether the port has Snappy
  tbHist,       \* history: the data blocks written, what Finish returned
  \* Arena
  arena,        \* the Arena's members
  heap,         \* the first address operator new has not given out
  arHist,       \* history: the last allocation asked for and what it returned
  \* TableCache
  cache_,       \* TableCache::cache_: the entries, by key
  tcHist        \* history: the last FindTable call, what it met and returned

skipVars == <<nodeKey, next_, max_height_, w, rd, hist, scan, torn>>

blockVars == <<bb, bbAdded>>

filterVars == <<policy_, fb, fbHist, fr>>

tableVars == <<rep_, file, snappy_, tbHist>>

arenaVars == <<arena, heap, arHist>>

tableCacheVars == <<cache_, tcHist>>

vars == <<skipVars, blockVars, filterVars, tableVars, arenaVars, tableCacheVars>>

\* What the operations of one component leave alone: the other components.
outsideSkipList == <<blockVars, filterVars, tableVars, arenaVars, tableCacheVars>>

outsideBlockBuilder == <<skipVars, filterVars, tableVars, arenaVars, tableCacheVars>>

outsideFilterBlock == <<skipVars, blockVars, tableVars, arenaVars, tableCacheVars>>

outsideTableBuilder == <<skipVars, blockVars, filterVars, arenaVars, tableCacheVars>>

outsideArena == <<skipVars, blockVars, filterVars, tableVars, tableCacheVars>>

outsideTableCache == <<skipVars, blockVars, filterVars, tableVars, arenaVars>>

(***************************************************************************)
(*                               SkipList                                  *)
(***************************************************************************)

\* Bounds of the model.
MaxKey == 2          \* sequential use: keys are 0..MaxKey
MaxConcKey == 1      \* concurrent use: keys are 0..MaxConcKey
MaxDrawnHeight == 2  \* RandomHeight draws 1..MaxDrawnHeight

kMaxHeight == 12

Keys == 0..MaxKey

ConcKeys == 0..MaxConcKey

head_ == 0
nullptr == -1
\* A link slot of a freshly allocated node: NewNode does not write next_.
Uninit == -2

Min(a, b) == IF a < b THEN a ELSE b

Nodes == DOMAIN nodeKey

\* The shared memory of the list as one value, for the step operators.
Mem == [nodeKey |-> nodeKey, next_ |-> next_, max_height_ |-> max_height_]

compare_(a, b) == IF a < b THEN -1 ELSE IF a > b THEN 1 ELSE 0

Equal(a, b) == compare_(a, b) = 0

\* Node::Next(n) / NoBarrier_Next(n): the stored link; a slot outside the
\* node's array or never written holds no defined value.
Load(M, x, n) ==
  IF x \in DOMAIN M.next_ /\ n \in DOMAIN M.next_[x] THEN M.next_[x][n] ELSE Uninit

\* What a load hands to the caller: the stored link, or, for a slot that was
\* never written, whatever the memory holds (g).
Observed(M, x, n, g) == IF Load(M, x, n) = Uninit THEN g ELSE Load(M, x, n)

\* Node::SetNext(n, v) / NoBarrier_SetNext(n, v)
SetNext(M, x, n, v) == [M EXCEPT !.next_[x][n] = v]

GetMaxHeight(M) == M.max_height_

\* The heights RandomHeight can return (1..kMaxHeight), cut to the bound.
RandomHeight == 1..Min(kMaxHeight, MaxDrawnHeight)

\* The address NewNode returns.  Addresses are opaque and only compared for
\* identity; keys in the list are unique (Insert's precondition), so the node
\* of key k is given the address k + 1 (0 is head_).
AddressOf(key) == key + 1

\* NewNode(key, height): a node whose key is set and whose links are not.
NewNode(M, key, height) ==
  [M EXCEPT !.nodeKey = (AddressOf(key) :> key) @@ @,
            !.next_ = (AddressOf(key) :> [l \in 0..(height - 1) |-> Uninit]) @@ @]

\* A plausible slip: the comparator's arguments swapped.
KeyIsAfterNodeSwapped(M, key, n) ==
  (n # nullptr) /\ (compare_(key, M.nodeKey[n]) < 0)

KeyIsAfterNode(M, key, n) ==
  (n # nullptr) /\ (compare_(M.nodeKey[n], key) < 0)

NoPrev == [l \in 0..(kMaxHeight - 1) |-> Uninit]

\* The locals of a search loop (FindGreaterOrEqual, FindLessThan, FindLast)
\* after "x = head_; level = GetMaxHeight() - 1".
SearchStart(M, key) ==
  [x |-> head_, level |-> GetMaxHeight(M) - 1, key |-> key, prev |-> NoPrev,
   done |-> FALSE, ret |-> nullptr, torn |-> FALSE]

\* A plausible slip: at level 0 the loop returns x, as FindLessThan does.
FindGreaterOrEqualStepReturnsX(M, f, wantPrev, g) ==
  LET next == Observed(M, f.x, f.level, g)
      p == IF wantPrev THEN [f.prev EXCEPT ![f.level] = f.x] ELSE f.prev
  IN IF KeyIsAfterNode(M, f.key, next)
        THEN [f EXCEPT !.x = next]
        ELSE IF f.level = 0
                THEN [f EXCEPT !.prev = p, !.done = TRUE, !.ret = f.x]
                ELSE [f EXCEPT !.prev = p, !.level = @ - 1]

\* One iteration of FindGreaterOrEqual's loop; wantPrev is "prev != nullptr".
FindGreaterOrEqualStep(M, f, wantPrev, g) ==
  LET next == Observed(M, f.x, f.level, g)
      t == f.torn \/ Load(M, f.x, f.level) = Uninit
      p == IF wantPrev THEN [f.prev EXCEPT ![f.level] = f.x] ELSE f.prev
  IN IF KeyIsAfterNode(M, f.key, next)
        THEN [f EXCEPT !.x = next, !.torn = t]
        ELSE IF f.level = 0
                THEN [f EXCEPT !.prev = p, !.done = TRUE, !.ret = next, !.torn = t]
                ELSE [f EXCEPT !.prev = p, !.level = @ - 1, !.torn = t]

\* A plausible slip: the loop also passes a node whose key equals the key.
FindLessThanStepPassesEqual(M, f, g) ==
  LET next == Observed(M, f.x, f.level, g)
      t == f.torn \/ Load(M, f.x, f.level) = Uninit
  IN IF next = nullptr \/ compare_(M.nodeKey[next], f.key) > 0
        THEN IF f.level = 0
                THEN [f EXCEPT !.done = TRUE, !.ret = f.x, !.torn = t]
                ELSE [f EXCEPT !.level = @ - 1, !.torn = t]
        ELSE [f EXCEPT !.x = next, !.torn = t]

\* One iteration of FindLessThan's loop.
FindLessThanStep(M, f, g) ==
  LET next == Observed(M, f.x, f.level, g)
      t == f.torn \/ Load(M, f.x, f.level) = Uninit
  IN IF next = nullptr \/ compare_(M.nodeKey[next], f.key) >= 0
        THEN IF f.level = 0
                THEN [f EXCEPT !.done = TRUE, !.ret = f.x, !.torn = t]
                ELSE [f EXCEPT !.level = @ - 1, !.torn = t]
        ELSE [f EXCEPT !.x = next, !.torn = t]

\* A plausible slip: at the end of a level above 0 the search stays on it.
FindLastStepStaysOnLevel(M, f, g) ==
  LET next == Observed(M, f.x, f.level, g)
      t == f.torn \/ Load(M, f.x, f.level) = Uninit
  IN IF next = nullptr
        THEN IF f.level = 0 THEN [f EXCEPT !.done = TRUE, !.ret = f.x, !.torn = t]
                            ELSE [f EXCEPT !.torn = t]
        ELSE [f EXCEPT !.x = next, !.torn = t]

\* One iteration of FindLast's loop.
FindLastStep(M, f, g) ==
  LET next == Observed(M, f.x, f.level, g)
      t == f.torn \/ Load(M, f.x, f.level) = Uninit
  IN IF next = nullptr
        THEN IF f.level = 0
                THEN [f EXCEPT !.done = TRUE, !.ret = f.x, !.torn = t]
                ELSE [f EXCEPT !.level = @ - 1, !.torn = t]
        ELSE [f EXCEPT !.x = next, !.torn = t]

RECURSIVE FGERun(_, _, _)
FGERun(M, f, wantPrev) ==
  IF f.done THEN f ELSE FGERun(M, FindGreaterOrEqualStep(M, f, wantPrev, nullptr), wantPrev)

\* FindGreaterOrEqual(key, prev) run to its return: .ret and .prev
FindGreaterOrEqual(M, key, wantPrev) == FGERun(M, SearchStart(M, key), wantPrev)

RECURSIVE FLTRun(_, _)
FLTRun(M, f) == IF f.done THEN f ELSE FLTRun(M, FindLessThanStep(M, f, nullptr))

FindLessThan(M, key) == FLTRun(M, SearchStart(M, key))

RECURSIVE FLRun(_, _)
FLRun(M, f) == IF f.done THEN f ELSE FLRun(M, FindLastStep(M, f, nullptr))

FindLast(M) == FLRun(M, SearchStart(M, 0))

\* ----- Insert, one shared-memory access at a time ------------------------

WriterIdle ==
  [pc |-> "idle", key |-> 0, height |-> 0, x |-> nullptr, i |-> 0, prev |-> NoPrev]

\* The assertion at the head of Insert: nothing equal to key is in the list.
InsertAssert(M, key) ==
  LET x == FindGreaterOrEqual(M, key, TRUE).ret
  IN IF x = nullptr THEN TRUE ELSE ~Equal(key, M.nodeKey[x])

\* "Node* x = FindGreaterOrEqual(key, prev); int height = RandomHeight();"
\* The writer is the only thread that stores links, so its own search sees a
\* memory that does not change under it.
InsertBegin(M, key, height) ==
  LET r == FindGreaterOrEqual(M, key, TRUE)
  IN [M |-> M,
      w |-> [pc |-> "height", key |-> key, height |-> height, x |-> r.ret,
             i |-> 0, prev |-> r.prev]]

\* A plausible slip: prev[] is filled in but the new height is not stored.
InsertHeightNotStored(M, wr) ==
  LET grow == wr.height > GetMaxHeight(M)
      p == IF grow
             THEN [l \in 0..(kMaxHeight - 1) |->
                     IF l >= GetMaxHeight(M) /\ l < wr.height THEN head_ ELSE wr.prev[l]]
             ELSE wr.prev
  IN [M |-> NewNode(M, wr.key, wr.height),
      w |-> [wr EXCEPT !.pc = "link_init", !.prev = p,
                       !.x = AddressOf(wr.key), !.i = 0]]

\* "if (height > GetMaxHeight()) { prev[i] = head_ ...; max_height_.store }"
\* followed by "x = NewNode(key, height)".
InsertHeight(M, wr) ==
  LET grow == wr.height > GetMaxHeight(M)
      p == IF grow
             THEN [l \in 0..(kMaxHeight - 1) |->
                     IF l >= GetMaxHeight(M) /\ l < wr.height THEN head_ ELSE wr.prev[l]]
             ELSE wr.prev
      M1 == IF grow THEN [M EXCEPT !.max_height_ = wr.height] ELSE M
  IN [M |-> NewNode(M1, wr.key, wr.height),
      w |-> [wr EXCEPT !.pc = "link_init", !.prev = p,
                       !.x = AddressOf(wr.key), !.i = 0]]

\* A plausible slip: the new node is published in prev[i] before its own
\* level-i link is filled in.
InsertLinkPublishFirst(M, wr) ==
  IF wr.pc = "link_init"
    THEN [M |-> SetNext(M, wr.prev[wr.i], wr.i, wr.x),
          w |-> [pc |-> "link_publish", key |-> wr.key, height |-> wr.height,
                 x |-> wr.x, i |-> wr.i, prev |-> wr.prev,
                 succ |-> Load(M, wr.prev[wr.i], wr.i)]]
    ELSE [M |-> SetNext(M, wr.x, wr.i, wr.succ),
          w |-> IF wr.i + 1 < wr.height
                  THEN [pc |-> "link_init", key |-> wr.key, height |-> wr.height,
                        x |-> wr.x, i |-> wr.i + 1, prev |-> wr.prev]
                  ELSE WriterIdle]

\* A plausible slip: the new node's own link is filled in at level 0 only.
InsertLinkInitLevel0Only(M, wr) ==
  IF wr.pc = "link_init"
    THEN [M |-> IF wr.i = 0
                  THEN SetNext(M, wr.x, wr.i, Load(M, wr.prev[wr.i], wr.i))
                  ELSE M,
          w |-> [wr EXCEPT !.pc = "link_publish"]]
    ELSE [M |-> SetNext(M, wr.prev[wr.i], wr.i, wr.x),
          w |-> IF wr.i + 1 < wr.height
                  THEN [wr EXCEPT !.pc = "link_init", !.i = @ + 1]
                  ELSE WriterIdle]

\* A plausible slip: the new node's own link is set to nullptr, not to the
\* node that follows prev[i].
InsertLinkDropsSuccessor(M, wr) ==
  IF wr.pc = "link_init"
    THEN [M |-> SetNext(M, wr.x, wr.i, nullptr),
          w |-> [wr EXCEPT !.pc = "link_publish"]]
    ELSE [M |-> SetNext(M, wr.prev[wr.i], wr.i, wr.x),
          w |-> IF wr.i + 1 < wr.height
                  THEN [wr EXCEPT !.pc = "link_init", !.i = @ + 1]
                  ELSE WriterIdle]

\* A plausible slip: the loop links the levels from the top one down.
InsertLinkTopDown(M, wr) ==
  IF wr.pc = "link_init"
    THEN [M |-> SetNext(M, wr.x, wr.height - 1 - wr.i,
                        Load(M, wr.prev[wr.height - 1 - wr.i], wr.height - 1 - wr.i)),
          w |-> [wr EXCEPT !.pc = "link_publish"]]
    ELSE [M |-> SetNext(M, wr.prev[wr.height - 1 - wr.i], wr.height - 1 - wr.i, wr.x),
          w |-> IF wr.i + 1 < wr.height
                  THEN [wr EXCEPT !.pc = "link_init", !.i = @ + 1]
                  ELSE WriterIdle]

\* One store of the loop "for (i = 0; i < height; i++)":
\*   x->NoBarrier_SetNext(i, prev[i]->NoBarrier_Next(i));   (pc = link_init)
\*   prev[i]->SetNext(i, x);                                (pc = link_publish)
InsertLink(M, wr) ==
  IF wr.pc = "link_init"
    THEN [M |-> SetNext(M, wr.x, wr.i, Load(M, wr.prev[wr.i], wr.i)),
          w |-> [wr EXCEPT !.pc = "link_publish"]]
    ELSE [M |-> SetNext(M, wr.prev[wr.i], wr.i, wr.x),
          w |-> IF wr.i + 1 < wr.height
                  THEN [wr EXCEPT !.pc = "link_init", !.i = @ + 1]
                  ELSE WriterIdle]

InsertStep(M, wr) ==
  IF wr.pc = "height" THEN InsertHeight(M, wr) ELSE InsertLink(M, wr)

RECURSIVE InsertRun(_)
InsertRun(S) == IF S.w.pc = "idle" THEN S ELSE InsertRun(InsertStep(S.M, S.w))

\* Insert(key) from call to return, the drawn height being "height".
Insert(M, key, height) == InsertRun(InsertBegin(M, key, height)).M

\* ----- Contains and the Iterator ------------------------------------------

NoSearch ==
  [x |-> head_, level |-> 0, key |-> 0, prev |-> NoPrev, done |-> FALSE,
   ret |-> nullptr, torn |-> FALSE]

ReaderIdle ==
  [pc |-> "idle", op |-> "none", key |-> 0, f |-> NoSearch, node_ |-> nullptr,
   result |-> FALSE]

\* Iterator::Valid
Valid(r) == r.node_ # nullptr

\* Entry of Contains(key), Iterator::Seek(target), Prev or SeekToLast: the
\* next thing the operation does is GetMaxHeight().
ReaderBegin(M, r, op, key) ==
  [r EXCEPT !.pc = "height", !.op = op,
            !.key = IF op = "Prev" THEN M.nodeKey[r.node_] ELSE key]

\* "Node* x = head_; int level = GetMaxHeight() - 1;"
ReaderLoadHeight(M, r) == [r EXCEPT !.pc = "search", !.f = SearchStart(M, r.key)]

\* One loop iteration of the search the operation runs.
SearchStep(M, r, g) ==
  IF r.op = "Prev" THEN FindLessThanStep(M, r.f, g)
  ELSE IF r.op = "SeekToLast" THEN FindLastStep(M, r.f, g)
  ELSE FindGreaterOrEqualStep(M, r.f, FALSE, g)

\* A plausible slip in Contains: the equality test is left out.
ContainsResultNoEqual(M, key, x) == x # nullptr

\* Contains: "x != nullptr && Equal(key, x->key)"
ContainsResult(M, key, x) == x # nullptr /\ Equal(key, M.nodeKey[x])

\* What the operation does with the node its search returned.
ReaderReturn(M, r, f) ==
  LET base == [r EXCEPT !.pc = "idle", !.f = NoSearch]
  IN IF r.op = "Contains"
       THEN [base EXCEPT !.result = ContainsResult(M, r.key, f.ret)]
     ELSE IF r.op = "Seek"
       THEN [base EXCEPT !.node_ = f.ret]
     ELSE [base EXCEPT !.node_ = IF f.ret = head_ THEN nullptr ELSE f.ret]

ReaderStep(M, r, g) ==
  IF r.pc = "height" THEN ReaderLoadHeight(M, r)
  ELSE LET f == SearchStep(M, r, g)
       IN IF f.done THEN ReaderReturn(M, r, f)
                    ELSE [r EXCEPT !.f = [f EXCEPT !.torn = FALSE]]

\* Whether the step loads a link slot that was never written.
StepTorn(M, r) ==
  r.pc = "search" /\ Load(M, r.f.x, r.f.level) = Uninit

RECURSIVE ReaderRun(_, _)
ReaderRun(M, r) == IF r.pc = "idle" THEN r ELSE ReaderRun(M, ReaderStep(M, r, nullptr))

\* Iterator::SeekToFirst: node_ = head_->Next(0)
SeekToFirst(M, r, g) == [r EXCEPT !.op = "SeekToFirst", !.node_ = Observed(M, head_, 0, g)]

\* Iterator::Next: node_ = node_->Next(0)
IterNext(M, r, g) == [r EXCEPT !.op = "Next", !.node_ = Observed(M, r.node_, 0, g)]

\* ----- State after construction ------------------------------------------

SkipInit ==
  /\ nodeKey = (head_ :> 0)
  /\ next_ = (head_ :> [l \in 0..(kMaxHeight - 1) |-> nullptr])
  /\ max_height_ = 1
  /\ w = WriterIdle
  /\ rd = ReaderIdle
  /\ hist = [invoked |-> {}, returned |-> {}, known |-> FALSE]
  /\ scan = [state |-> "none", visited |-> <<>>, from |-> nullptr]
  /\ torn = FALSE

SetMem(M) ==
  /\ nodeKey' = M.nodeKey
  /\ next_' = M.next_
  /\ max_height_' = M.max_height_

NoScan == [state |-> "none", visited |-> <<>>, from |-> nullptr]

\* ----- Sequential use: every operation runs from call to return -----------

SeqInsert ==
  \E key \in Keys, height \in RandomHeight :
    /\ w.pc = "idle"
    /\ InsertAssert(Mem, key)
    /\ SetMem(Insert(Mem, key, height))
    /\ hist' = [invoked |-> hist.invoked \cup {key}, returned |-> hist.returned \cup {key},
                known |-> hist.known]
    /\ scan' = NoScan
    /\ UNCHANGED <<w, rd, torn>>

SeqContains ==
  \E key \in Keys :
    /\ rd' = ReaderRun(Mem, ReaderBegin(Mem, rd, "Contains", key))
    /\ UNCHANGED <<nodeKey, next_, max_height_, w, hist, scan, torn>>

SeqSeek ==
  \E key \in Keys :
    /\ rd' = ReaderRun(Mem, ReaderBegin(Mem, rd, "Seek", key))
    /\ scan' = NoScan
    /\ UNCHANGED <<nodeKey, next_, max_height_, w, hist, torn>>

SeqSeekToLast ==
  /\ rd' = ReaderRun(Mem, ReaderBegin(Mem, rd, "SeekToLast", 0))
  /\ scan' = NoScan
  /\ UNCHANGED <<nodeKey, next_, max_height_, w, hist, torn>>

SeqPrev ==
  /\ Valid(rd)
  /\ rd' = ReaderRun(Mem, ReaderBegin(Mem, rd, "Prev", 0))
  /\ scan' = NoScan
  /\ UNCHANGED <<nodeKey, next_, max_height_, w, hist, torn>>

SeqSeekToFirst ==
  /\ rd' = SeekToFirst(Mem, rd, nullptr)
  /\ scan' = IF Valid(rd')
               THEN [state |-> "active", visited |-> <<nodeKey[rd'.node_]>>, from |-> nullptr]
               ELSE [state |-> "done", visited |-> <<>>, from |-> nullptr]
  /\ UNCHANGED <<nodeKey, next_, max_height_, w, hist, torn>>

SeqNext ==
  /\ Valid(rd)
  /\ rd' = IterNext(Mem, rd, nullptr)
  /\ scan' = IF scan.state # "active" THEN [NoScan EXCEPT !.from = rd.node_]
             ELSE IF Valid(rd')
               THEN [scan EXCEPT !.visited = Append(@, nodeKey[rd'.node_]), !.from = rd.node_]
             ELSE [scan EXCEPT !.state = "done", !.from = rd.node_]
  /\ UNCHANGED <<nodeKey, next_, max_height_, w, hist, torn>>

SkipSeqNext ==
  \/ SeqInsert /\ UNCHANGED outsideSkipList
  \/ SeqContains /\ UNCHANGED outsideSkipList
  \/ SeqSeek /\ UNCHANGED outsideSkipList
  \/ SeqSeekToLast /\ UNCHANGED outsideSkipList
  \/ SeqPrev /\ UNCHANGED outsideSkipList
  \/ SeqSeekToFirst /\ UNCHANGED outsideSkipList
  \/ SeqNext /\ UNCHANGED outsideSkipList

\* ----- Concurrent use: one writer, a reader, one load or store per step ---

\* What a load of a link slot can return: the stored link when the slot was
\* written (g is then not looked at), anything when it was not.
Garbage(unwritten) == IF unwritten THEN Nodes \cup {nullptr} ELSE {nullptr}

WriterInvoke ==
  \E key \in ConcKeys, height \in RandomHeight :
    /\ w.pc = "idle"
    /\ InsertAssert(Mem, key)
    /\ w' = InsertBegin(Mem, key, height).w
    /\ hist' = [hist EXCEPT !.invoked = @ \cup {key}]
    /\ UNCHANGED <<nodeKey, next_, max_height_, rd, scan, torn>>

WriterStep ==
  /\ w.pc # "idle"
  /\ LET S == InsertStep(Mem, w)
     IN /\ SetMem(S.M)
        /\ w' = S.w
        /\ hist' = IF S.w.pc = "idle" THEN [hist EXCEPT !.returned = @ \cup {w.key}]
                                      ELSE hist
  /\ UNCHANGED <<rd, scan, torn>>

ReaderInvoke ==
  \E op \in {"Contains", "Seek", "SeekToLast", "Prev"}, key \in ConcKeys :
    /\ rd.pc = "idle"
    /\ op \in {"SeekToLast", "Prev"} => key = 0
    /\ op = "Prev" => Valid(rd)
    /\ rd' = ReaderBegin(Mem, rd, op, key)
    /\ hist' = [hist EXCEPT !.known = (op = "Contains" /\ key \in hist.returned)]
    /\ UNCHANGED <<nodeKey, next_, max_height_, w, scan, torn>>

ReaderAdvance ==
  /\ rd.pc # "idle"
  /\ \E g \in Garbage(StepTorn(Mem, rd)) : rd' = ReaderStep(Mem, rd, g)
  /\ torn' = (torn \/ StepTorn(Mem, rd))
  /\ UNCHANGED <<nodeKey, next_, max_height_, w, hist, scan>>

ReaderSeekToFirst ==
  /\ rd.pc = "idle"
  /\ \E g \in Garbage(Load(Mem, head_, 0) = Uninit) : rd' = SeekToFirst(Mem, rd, g)
  /\ torn' = (torn \/ Load(Mem, head_, 0) = Uninit)
  /\ UNCHANGED <<nodeKey, next_, max_height_, w, hist, scan>>

ReaderNext ==
  /\ rd.pc = "idle"
  /\ Valid(rd)
  /\ \E g \in Garbage(Load(Mem, rd.node_, 0) = Uninit) : rd' = IterNext(Mem, rd, g)
  /\ torn' = (torn \/ Load(Mem, rd.node_, 0) = Uninit)
  /\ UNCHANGED <<nodeKey, next_, max_height_, w, hist, scan>>

SkipConcNext ==
  \/ WriterInvoke /\ UNCHANGED outsideSkipList
  \/ WriterStep /\ UNCHANGED outsideSkipList
  \/ ReaderInvoke /\ UNCHANGED outsideSkipList
  \/ ReaderAdvance /\ UNCHANGED outsideSkipList
  \/ ReaderSeekToFirst /\ UNCHANGED outsideSkipList
  \/ ReaderNext /\ UNCHANGED outsideSkipList

(***************************************************************************)
(*                             BlockBuilder                                *)
(***************************************************************************)

\* Bounds of the model.
MaxBlockKeyLen == 2       \* keys are byte strings of length 0..MaxBlockKeyLen
MaxBlockEntries == 3      \* Add calls between two Resets
MaxRestartInterval == 2   \* options->block_restart_interval is 1..MaxRestartInterval

KeyBytes == {97, 98}

Strings(alphabet, n) == UNION {[1..m -> alphabet] : m \in 0..n}

BlockKeys == Strings(KeyBytes, MaxBlockKeyLen)

BlockValues == {<<>>, <<118>>}

RECURSIVE BytewiseCompare(_, _)
\* BytewiseComparator: lexicographic order of the bytes, a proper prefix first.
BytewiseCompare(a, b) ==
  IF a = <<>> THEN (IF b = <<>> THEN 0 ELSE -1)
  ELSE IF b = <<>> THEN 1
  ELSE IF a[1] < b[1] THEN -1
  ELSE IF a[1] > b[1] THEN 1
  ELSE BytewiseCompare(Tail(a), Tail(b))

RECURSIVE EncodeVarint(_)
\* PutVarint32 / PutVarint64: seven bits per byte, low group first, the high
\* bit set on every byte but the last.
EncodeVarint(v) ==
  IF v < 128 THEN <<v>> ELSE <<(v % 128) + 128>> \o EncodeVarint(v \div 128)

\* PutFixed32: four bytes, little-endian.
EncodeFixed32(v) ==
  <<v % 256, (v \div 256) % 256, (v \div 65536) % 256, (v \div 16777216) % 256>>

\* DecodeFixed32 of the four bytes that follow the first "off" bytes.
DecodeFixed32(bytes, off) ==
  bytes[off + 1] + 256 * bytes[off + 2] + 65536 * bytes[off + 3] + 16777216 * bytes[off + 4]

RECURSIVE DecodeVarint(_, _)
\* GetVarint32 at offset "off": the value and the offset after it.
DecodeVarint(bytes, off) ==
  IF bytes[off + 1] < 128
    THEN [value |-> bytes[off + 1], next |-> off + 1]
    ELSE LET rest == DecodeVarint(bytes, off + 1)
         IN [value |-> (bytes[off + 1] - 128) + 128 * rest.value, next |-> rest.next]

RECURSIVE Concat(_)
Concat(chunks) == IF chunks = <<>> THEN <<>> ELSE Head(chunks) \o Concat(Tail(chunks))

\* BlockBuilder::BlockBuilder(options)
BlockBuilder_New(interval) ==
  [block_restart_interval |-> interval, buffer_ |-> <<>>, restarts_ |-> <<0>>,
   counter_ |-> 0, finished_ |-> FALSE, last_key_ |-> <<>>]

\* BlockBuilder::Reset
BlockBuilder_Reset(b) ==
  [b EXCEPT !.buffer_ = <<>>, !.restarts_ = <<0>>, !.counter_ = 0,
            !.finished_ = FALSE, !.last_key_ = <<>>]

\* BlockBuilder::empty
BlockBuilder_empty(b) == b.buffer_ = <<>>

\* BlockBuilder::CurrentSizeEstimate
\* A plausible slip: the word that holds the number of restarts is not counted.
CurrentSizeEstimateNoCount(b) == Len(b.buffer_) + Len(b.restarts_) * 4

BlockBuilder_CurrentSizeEstimate(b) == Len(b.buffer_) + Len(b.restarts_) * 4 + 4

\* BlockBuilder::Finish: the members afterwards; the Slice returned is buffer_.
BlockBuilder_Finish(b) ==
  [b EXCEPT !.buffer_ = @ \o Concat([i \in 1..Len(b.restarts_) |-> EncodeFixed32(b.restarts_[i])])
                          \o EncodeFixed32(Len(b.restarts_)),
            !.finished_ = TRUE]

RECURSIVE CommonPrefix(_, _)
\* "while ((shared < min_length) && (last_key_piece[shared] == key[shared]))"
CommonPrefix(a, b) ==
  IF a = <<>> \/ b = <<>> THEN 0
  ELSE IF a[1] # b[1] THEN 0
  ELSE 1 + CommonPrefix(Tail(a), Tail(b))

\* The assertions at the head of Add.
BlockBuilder_AddAssert(b, key) ==
  /\ ~b.finished_
  /\ b.counter_ <= b.block_restart_interval
  /\ (b.buffer_ = <<>> \/ BytewiseCompare(key, b.last_key_) > 0)

\* A plausible slip: the restart entry is prefix-compressed like any other.
AddSharedAlways(b, key) ==
  IF b.counter_ < b.block_restart_interval
    THEN [shared |-> CommonPrefix(b.last_key_, key), restarts_ |-> b.restarts_,
          counter_ |-> b.counter_]
    ELSE [shared |-> CommonPrefix(b.last_key_, key),
          restarts_ |-> Append(b.restarts_, Len(b.buffer_)), counter_ |-> 0]

\* Add, first part: "shared", and the restart taken when the counter has
\* reached the interval.
AddShared(b, key) ==
  IF b.counter_ < b.block_restart_interval
    THEN [shared |-> CommonPrefix(b.last_key_, key), restarts_ |-> b.restarts_,
          counter_ |-> b.counter_]
    ELSE [shared |-> 0, restarts_ |-> Append(b.restarts_, Len(b.buffer_)), counter_ |-> 0]

\* Add, last part: "last_key_.resize(shared); last_key_.append(key.data() +
\* shared, non_shared)"
AddLastKey(last_key, key, shared) ==
  SubSeq(last_key, 1, shared) \o SubSeq(key, shared + 1, Len(key))

\* A plausible slip: the delta is taken from the start of the key.
AddDeltaFromKeyStart(key, shared) ==
  SubSeq(key, 1, Len(key) - shared)

\* Add, the key delta: "buffer_.append(key.data() + shared, non_shared)"
AddDelta(key, shared) ==
  SubSeq(key, shared + 1, Len(key))

\* BlockBuilder::Add
BlockBuilder_Add(b, key, value) ==
  LET s == AddShared(b, key)
      shared == s.shared
      non_shared == Len(key) - shared
  IN [b EXCEPT !.restarts_ = s.restarts_,
               !.buffer_ = @ \o EncodeVarint(shared) \o EncodeVarint(non_shared)
                             \o EncodeVarint(Len(value))
                             \o AddDelta(key, shared) \o value,
               !.last_key_ = AddLastKey(@, key, shared),
               !.counter_ = s.counter_ + 1]

\* ----- Reading a block back, by the format the file documents -------------

\* num_restarts: the last uint32 of the block.
BlockNumRestarts(bytes) == DecodeFixed32(bytes, Len(bytes) - 4)

\* Where the restart array starts, which is where the entries end.
BlockRestartOffset(bytes) == Len(bytes) - 4 - 4 * BlockNumRestarts(bytes)

\* restarts[0 .. num_restarts - 1]
BlockRestarts(bytes) ==
  [i \in 1..BlockNumRestarts(bytes) |->
     DecodeFixed32(bytes, BlockRestartOffset(bytes) + 4 * (i - 1))]

RECURSIVE BlockEntries(_, _, _, _)
\* The entries from offset "off" up to "limit", the key before them being
\* "prev": shared, unshared and value_length as varints, then the key delta
\* and the value.
BlockEntries(bytes, off, limit, prev) ==
  IF off >= limit THEN <<>>
  ELSE LET sh == DecodeVarint(bytes, off)
           un == DecodeVarint(bytes, sh.next)
           vl == DecodeVarint(bytes, un.next)
           key == SubSeq(prev, 1, sh.value)
                    \o SubSeq(bytes, vl.next + 1, vl.next + un.value)
           value == SubSeq(bytes, vl.next + un.value + 1, vl.next + un.value + vl.value)
       IN <<[offset |-> off, shared |-> sh.value, key |-> key, value |-> value]>>
            \o BlockEntries(bytes, vl.next + un.value + vl.value, limit, key)

\* The (key, value) pairs of a sequence of decoded entries.
Pairs(entries) == [i \in 1..Len(entries) |-> <<entries[i].key, entries[i].value>>]

\* The whole block decoded from its first byte.
BlockDecode(bytes) == BlockEntries(bytes, 0, BlockRestartOffset(bytes), <<>>)

\* ----- State after construction, and the operations -----------------------

BlockInit ==
  /\ \E interval \in 1..MaxRestartInterval : bb = BlockBuilder_New(interval)
  /\ bbAdded = <<>>

BlockParked ==
  /\ bb = BlockBuilder_New(1)
  /\ bbAdded = <<>>

BBAdd ==
  \E key \in BlockKeys, value \in BlockValues :
    /\ Len(bbAdded) < MaxBlockEntries
    /\ BlockBuilder_AddAssert(bb, key)
    /\ bb' = BlockBuilder_Add(bb, key, value)
    /\ bbAdded' = Append(bbAdded, <<key, value>>)

BBFinish ==
  /\ ~bb.finished_
  /\ bb' = BlockBuilder_Finish(bb)
  /\ UNCHANGED bbAdded

BBReset ==
  /\ bb' = BlockBuilder_Reset(bb)
  /\ bbAdded' = <<>>

BlockNext ==
  \/ BBAdd /\ UNCHANGED outsideBlockBuilder
  \/ BBFinish /\ UNCHANGED outsideBlockBuilder
  \/ BBReset /\ UNCHANGED outsideBlockBuilder


(***************************************************************************)
(*                  FilterBlockBuilder, FilterBlockReader                  *)
(***************************************************************************)

\* Bounds of the model.
MaxFilterKeyLen == 2     \* filter keys are "", "a", "aa", ... of length 0..MaxFilterKeyLen
MaxFilterKeys == 2       \* AddKey calls on one builder
MaxFilterHalfWindows == 4  \* block offsets are 0..MaxFilterHalfWindows half windows

kFilterBaseLg == 11

kFilterBase == 2 ^ kFilterBaseLg

FilterKeys == Strings({97}, MaxFilterKeyLen)

FilterOffsets == {i * (kFilterBase \div 2) : i \in 0..MaxFilterHalfWindows}

\* Two filter policies without false negatives.  "hash" keeps one byte per
\* key, so that distinct keys can collide and a filter without keys is empty;
\* "all" keeps nothing and reports every key as a possible match.
Policies == {"hash", "all"}

RECURSIVE SumBytes(_)
SumBytes(key) == IF key = <<>> THEN 0 ELSE Head(key) + SumBytes(Tail(key))

PolicyHash(key) == SumBytes(key) % 2

\* FilterPolicy::CreateFilter: the bytes appended to dst for these keys.
PolicyCreateFilter(p, keys) ==
  IF p = "hash" THEN [i \in 1..Len(keys) |-> PolicyHash(keys[i])] ELSE <<>>

\* FilterPolicy::KeyMayMatch
PolicyKeyMayMatch(p, key, filter) ==
  IF p = "hash" THEN \E i \in 1..Len(filter) : filter[i] = PolicyHash(key) ELSE TRUE

\* FilterBlockBuilder::FilterBlockBuilder
FilterBlockBuilder_New ==
  [keys_ |-> <<>>, start_ |-> <<>>, result_ |-> <<>>, filter_offsets_ |-> <<>>]

\* The keys of the flattened key structure: "tmp_keys_[i] = Slice(base, length)"
TmpKeys(keys, start) ==
  [i \in 1..(Len(start) - 1) |-> SubSeq(keys, start[i] + 1, start[i + 1])]

\* FilterBlockBuilder::GenerateFilter
GenerateFilter(f, p) ==
  IF Len(f.start_) = 0
    THEN [f EXCEPT !.filter_offsets_ = Append(@, Len(f.result_))]
    ELSE [f EXCEPT !.filter_offsets_ = Append(@, Len(f.result_)),
                   !.result_ = @ \o PolicyCreateFilter(p, TmpKeys(f.keys_, Append(f.start_, Len(f.keys_)))),
                   !.keys_ = <<>>,
                   !.start_ = <<>>]

\* FilterBlockBuilder::StartBlock: "assert(filter_index >= filter_offsets_.size())"
StartBlockAssert(f, block_offset) ==
  block_offset \div kFilterBase >= Len(f.filter_offsets_)

\* A plausible slip: "if" for "while", one filter a call at most.
StartBlockOnce(f, p, filter_index) ==
  IF filter_index > Len(f.filter_offsets_) THEN GenerateFilter(f, p) ELSE f

RECURSIVE StartBlockLoop(_, _, _)
\* FilterBlockBuilder::StartBlock: "while (filter_index > filter_offsets_.size())"
StartBlockLoop(f, p, filter_index) ==
  IF filter_index > Len(f.filter_offsets_)
    THEN StartBlockLoop(GenerateFilter(f, p), p, filter_index)
    ELSE f

\* FilterBlockBuilder::StartBlock
StartBlock(f, p, block_offset) == StartBlockLoop(f, p, block_offset \div kFilterBase)

\* FilterBlockBuilder::AddKey
AddKey(f, key) ==
  [f EXCEPT !.start_ = Append(@, Len(f.keys_)), !.keys_ = @ \o key]

\* A plausible slip: Finish closes a last filter whether keys wait or not.
FinishPendingAlways(f, p) == GenerateFilter(f, p)

\* FilterBlockBuilder::Finish: "if (!start_.empty()) GenerateFilter()"
FinishPending(f, p) ==
  IF f.start_ # <<>> THEN GenerateFilter(f, p) ELSE f

\* FilterBlockBuilder::Finish: the members afterwards; the Slice returned is
\* result_.
FilterBlockBuilder_Finish(f, p) ==
  LET g == FinishPending(f, p)
      array_offset == Len(g.result_)
  IN [g EXCEPT !.result_ =
        @ \o Concat([i \in 1..Len(g.filter_offsets_) |-> EncodeFixed32(g.filter_offsets_[i])])
          \o EncodeFixed32(array_offset)
          \o <<kFilterBaseLg>>]

\* FilterBlockReader::FilterBlockReader.  data_ is the contents, offset_ the
\* distance of the offset array from data_; a reader that returned early has
\* num_ = 0 and never touches data_.
FilterBlockReader_New(contents) ==
  LET n == Len(contents)
      none == [data_ |-> <<>>, offset_ |-> 0, num_ |-> 0, base_lg_ |-> 0]
  IN IF n < 5 THEN none
     ELSE LET last_word == DecodeFixed32(contents, n - 5)
          IN IF last_word > n - 5
               THEN [none EXCEPT !.base_lg_ = contents[n]]
               ELSE [data_ |-> contents, offset_ |-> last_word,
                     num_ |-> (n - 5 - last_word) \div 4, base_lg_ |-> contents[n]]

\* A plausible slip: the filter of the window before the block's is looked up.
FilterIndexOneBefore(r, block_offset) ==
  IF block_offset \div (2 ^ r.base_lg_) = 0 THEN 0
  ELSE block_offset \div (2 ^ r.base_lg_) - 1

\* FilterBlockReader::KeyMayMatch: "index = block_offset >> base_lg_"
FilterIndex(r, block_offset) ==
  block_offset \div (2 ^ r.base_lg_)

\* FilterBlockReader::KeyMayMatch
KeyMayMatch(r, p, block_offset, key) ==
  LET index == FilterIndex(r, block_offset)
  IN IF index < r.num_
       THEN LET start == DecodeFixed32(r.data_, r.offset_ + index * 4)
                limit == DecodeFixed32(r.data_, r.offset_ + index * 4 + 4)
            IN IF start <= limit /\ limit <= r.offset_
                 THEN PolicyKeyMayMatch(p, key, SubSeq(r.data_, start + 1, limit))
                 ELSE IF start = limit THEN FALSE ELSE TRUE
       ELSE TRUE

\* ----- State after construction, and the operations -----------------------

NoQuery == [block_offset |-> 0, key |-> <<>>, result |-> TRUE, asked |-> FALSE]

FilterHistInit ==
  [finished |-> FALSE, aborted |-> FALSE, started |-> FALSE, monotone |-> TRUE,
   first |-> 0, last |-> 0, maxIndex |-> 0, pending |-> FALSE, under |-> {}, nkeys |-> 0]

FilterInit ==
  /\ policy_ \in Policies
  /\ fb = FilterBlockBuilder_New
  /\ fbHist = FilterHistInit
  /\ fr = NoQuery

FilterParked ==
  /\ policy_ = "all"
  /\ fb = FilterBlockBuilder_New
  /\ fbHist = FilterHistInit
  /\ fr = NoQuery

FilterOpen == ~fbHist.finished /\ ~fbHist.aborted

\* StartBlock(block_offset); a failed assert ends the process.
FBStartBlock ==
  \E block_offset \in FilterOffsets :
    /\ FilterOpen
    /\ IF StartBlockAssert(fb, block_offset)
         THEN /\ fb' = StartBlock(fb, policy_, block_offset)
              /\ fbHist' =
                   [fbHist EXCEPT
                      !.started = TRUE,
                      !.monotone = @ /\ (fbHist.started => block_offset >= fbHist.last),
                      !.first = IF fbHist.started THEN @ ELSE block_offset,
                      !.last = block_offset,
                      !.maxIndex = IF block_offset \div kFilterBase > @
                                     THEN block_offset \div kFilterBase ELSE @,
                      !.pending = @ /\ ~(block_offset \div kFilterBase > fbHist.maxIndex)]
         ELSE /\ fbHist' =
                   [fbHist EXCEPT
                      !.aborted = TRUE,
                      !.monotone = @ /\ (fbHist.started => block_offset >= fbHist.last)]
              /\ UNCHANGED fb
    /\ UNCHANGED <<policy_, fr>>

\* AddKey(key)
FBAddKey ==
  \E key \in FilterKeys :
    /\ FilterOpen
    /\ fbHist.nkeys < MaxFilterKeys
    /\ fb' = AddKey(fb, key)
    /\ fbHist' =
         [fbHist EXCEPT
            !.nkeys = @ + 1,
            !.pending = TRUE,
            !.under = IF fbHist.started THEN @ \cup {<<fbHist.last, key>>} ELSE @]
    /\ UNCHANGED <<policy_, fr>>

\* Finish()
FBFinish ==
  /\ FilterOpen
  /\ fb' = FilterBlockBuilder_Finish(fb, policy_)
  /\ fbHist' = [fbHist EXCEPT !.finished = TRUE]
  /\ UNCHANGED <<policy_, fr>>

\* A reader over the finished block answers KeyMayMatch(block_offset, key).
\* KeyMayMatch changes nothing, so one query a run covers them all.
FBKeyMayMatch ==
  \E block_offset \in FilterOffsets, key \in FilterKeys :
    /\ fbHist.finished
    /\ ~fr.asked
    /\ fr' = [block_offset |-> block_offset, key |-> key, asked |-> TRUE,
              result |-> KeyMayMatch(FilterBlockReader_New(fb.result_), policy_,
                                     block_offset, key)]
    /\ UNCHANGED <<policy_, fb, fbHist>>

FilterNext ==
  \/ FBStartBlock /\ UNCHANGED outsideFilterBlock
  \/ FBAddKey /\ UNCHANGED outsideFilterBlock
  \/ FBFinish /\ UNCHANGED outsideFilterBlock
  \/ FBKeyMayMatch /\ UNCHANGED outsideFilterBlock

(***************************************************************************)
(*                             TableBuilder                                *)
(***************************************************************************)

\* Bounds of the model.
MaxTableKeys == 4      \* the keys given to Add are the first MaxTableKeys of TableKey
MaxTableEntries == 3   \* Add calls on one builder

\* The keys "a", "aa", "c", "ca", "e", ... in ascending order: neighbours
\* that share a prefix, and neighbours with room for a shorter separator.
TableKey(i) ==
  <<97 + 2 * ((i - 1) \div 2)>> \o (IF i % 2 = 0 THEN <<97>> ELSE <<>>)

TableKeys == {TableKey(i) : i \in 1..MaxTableKeys}

TableValues == {<<118>>}

kNoCompression == 0

kSnappyCompression == 1

kBlockTrailerSize == 5

\* BlockHandle::kMaxEncodedLength
kMaxEncodedLength == 20

\* Footer::kEncodedLength
kEncodedLength == 2 * kMaxEncodedLength + 8

\* kTableMagicNumber 0xdb4775248b80fb57, as PutFixed32 of its low and of its
\* high half lays it out.
kTableMagicBytes == <<87, 251, 128, 139, 36, 117, 71, 219>>

\* BlockHandle::EncodeTo: "PutVarint64(dst, offset_); PutVarint64(dst, size_)"
BlockHandle_EncodeTo(handle) ==
  EncodeVarint(handle.offset) \o EncodeVarint(handle.size)

\* BlockHandle::DecodeFrom at offset "off" of bytes
BlockHandle_DecodeFrom(bytes, off) ==
  LET o == DecodeVarint(bytes, off)
      s == DecodeVarint(bytes, o.next)
  IN [offset |-> o.value, size |-> s.value, next |-> s.next]

\* A BlockHandle before set_offset / set_size.
NoHandle == [offset |-> 0, size |-> 0]

Zeros(n) == [i \in 1..n |-> 0]

\* Footer::EncodeTo: the two handles, padding to 2 * kMaxEncodedLength, the
\* magic number.
Footer_EncodeTo(metaindex_handle, index_handle) ==
  LET handles == BlockHandle_EncodeTo(metaindex_handle) \o BlockHandle_EncodeTo(index_handle)
  IN handles \o Zeros(2 * kMaxEncodedLength - Len(handles)) \o kTableMagicBytes

\* Footer::DecodeFrom of the last kEncodedLength bytes of a file
Footer_DecodeFrom(bytes) ==
  LET at == Len(bytes) - kEncodedLength
      m == BlockHandle_DecodeFrom(bytes, at)
      i == BlockHandle_DecodeFrom(bytes, m.next)
  IN [metaindex_handle |-> [offset |-> m.offset, size |-> m.size],
      index_handle |-> [offset |-> i.offset, size |-> i.size],
      magic |-> SubSeq(bytes, Len(bytes) - 7, Len(bytes))]

\* crc32c::Mask(crc32c::Extend(crc32c::Value(contents), type)), kept as a
\* checksum of the same bytes: the sum of contents and type.
MaskedCrc(block_contents, type) == SumBytes(block_contents) + type

\* The block trailer: "trailer[0] = type; EncodeFixed32(trailer + 1, crc)"
BlockTrailer(block_contents, type) ==
  <<type>> \o EncodeFixed32(MaskedCrc(block_contents, type))

RECURSIVE TrailingZeros(_)
TrailingZeros(bytes) ==
  IF bytes = <<>> \/ bytes[Len(bytes)] # 0 THEN 0
  ELSE 1 + TrailingZeros(SubSeq(bytes, 1, Len(bytes) - 1))

\* port::Snappy_Compress where the port supports it, kept as a lossless
\* codec that the blocks of this model can gain or lose by: the number of
\* trailing zero bytes, then the bytes before them.
Snappy_Compress(raw) ==
  <<TrailingZeros(raw)>> \o SubSeq(raw, 1, Len(raw) - TrailingZeros(raw))

\* port::Snappy_Uncompress
Snappy_Uncompress(compressed) ==
  Tail(compressed) \o Zeros(Head(compressed))

RECURSIVE DiffIndex(_, _)
\* The length of the common prefix of two strings.
DiffIndex(a, b) ==
  IF a = <<>> \/ b = <<>> \/ Head(a) # Head(b) THEN 0
  ELSE 1 + DiffIndex(Tail(a), Tail(b))

\* BytewiseComparatorImpl::FindShortestSeparator: the new *start
FindShortestSeparator(start, limit) ==
  LET diff_index == DiffIndex(start, limit)
  IN IF diff_index >= Min(Len(start), Len(limit)) THEN start
     ELSE IF start[diff_index + 1] < 255 /\ start[diff_index + 1] + 1 < limit[diff_index + 1]
       THEN SubSeq(start, 1, diff_index) \o <<start[diff_index + 1] + 1>>
       ELSE start

RECURSIVE FindShortSuccessorFrom(_, _)
FindShortSuccessorFrom(key, i) ==
  IF i > Len(key) THEN key
  ELSE IF key[i] # 255 THEN SubSeq(key, 1, i - 1) \o <<key[i] + 1>>
  ELSE FindShortSuccessorFrom(key, i + 1)

\* BytewiseComparatorImpl::FindShortSuccessor: the new *key
FindShortSuccessor(key) == FindShortSuccessorFrom(key, 1)

\* FilterPolicy::Name, as bytes
PolicyName(p) ==
  IF p = "hash" THEN <<104, 97, 115, 104>> ELSE <<97, 108, 108>>

\* "filter." + options.filter_policy->Name()
FilterMetaKey(p) == <<102, 105, 108, 116, 101, 114, 46>> \o PolicyName(p)

\* ----- The builder --------------------------------------------------------
\* The operations below take and give a record "st" of what a call can read
\* and write: rep (TableBuilder::Rep), file (the bytes of the WritableFile),
\* snappy (whether the port has Snappy), luck (how many more calls on the
\* file succeed), handle (the BlockHandle the last WriteRawBlock filled in),
\* the three handles local to Finish, blocks (history: where each data block
\* lies in the file), aborted (the assert that failed and ended the program,
\* "no" while none has), given and changed (the Options a call of ChangeOptions
\* was given, none for another call, and what it returned), and more
\* history: added (the keys given to data_block.Add), ends (how many keys had
\* been added when each data block was flushed), index (the keys of the
\* index entries emitted), appends (the size and the outcome of each Append
\* the file was asked for) and handles (the handles WriteRawBlock filled in
\* for the blocks it wrote in full).

\* The comparators an Options can name; the builder is made with the first.
Comparators == {"bytewise", "other"}

\* assert(holds): the first assert that fails ends the program.
Check(aborted, holds, what) == IF aborted = "no" /\ ~holds THEN what ELSE aborted

\* Whether the program still runs.
Alive(st) == st.aborted = "no"

\* TableBuilder::Rep::Rep
Rep_New(options) ==
  [options |-> options,
   index_block_options |-> [options EXCEPT !.block_restart_interval = 1],
   offset |-> 0,
   status |-> "OK",
   data_block |-> BlockBuilder_New(options.block_restart_interval),
   index_block |-> BlockBuilder_New(1),
   last_key |-> <<>>,
   num_entries |-> 0,
   closed |-> FALSE,
   filter_block |-> FilterBlockBuilder_New,
   policy_ |-> options.filter_policy,
   pending_index_entry |-> FALSE,
   pending_handle |-> NoHandle]

\* "rep_->filter_block != nullptr": the constructor made a FilterBlockBuilder,
\* whose policy_ stays the filter_policy of the Options it was made with.
HasFilter(r) == r.policy_ # "nullptr"

\* A plausible slip: the builder carries on after an error.
okAlways(st) == TRUE

\* TableBuilder::ok
ok(st) == st.rep.status = "OK"

\* "r->status = r->file->Append(data)"; a failed Append leaves the file as
\* it was.
File_Append(st, data) ==
  IF st.luck > 0
    THEN [st EXCEPT !.file = @ \o data, !.luck = @ - 1, !.rep.status = "OK",
                    !.appends = Append(@, [size |-> Len(data), ok |-> TRUE])]
    ELSE [st EXCEPT !.rep.status = "IOError: Append",
                    !.appends = Append(@, [size |-> Len(data), ok |-> FALSE])]

\* "r->status = r->file->Flush()"
File_Flush(st) ==
  IF st.luck > 0
    THEN [st EXCEPT !.luck = @ - 1, !.rep.status = "OK"]
    ELSE [st EXCEPT !.rep.status = "IOError: Flush"]

\* A plausible slip: the trailer is left out of the offset.
AdvanceOffsetNoTrailer(offset, size) == offset + size

\* WriteRawBlock: "r->offset += block_contents.size() + kBlockTrailerSize"
AdvanceOffset(offset, size) == offset + size + kBlockTrailerSize

\* WriteRawBlock: "handle->set_offset(r->offset); handle->set_size(...)"
\* A plausible slip: the handle's size counts the trailer.
WriteRawBlockHandleWithTrailer(st, size) ==
  [st EXCEPT !.handle = [offset |-> st.rep.offset, size |-> size + kBlockTrailerSize]]

WriteRawBlockHandle(st, size) ==
  [st EXCEPT !.handle = [offset |-> st.rep.offset, size |-> size]]

\* WriteRawBlock, after the trailer's Append
\* A plausible slip: the offset moves whether or not the trailer went out.
WriteRawBlockAdvanceAlways(st, size) ==
  [st EXCEPT !.rep.offset = AdvanceOffset(@, size),
             !.handles = Append(@, st.handle)]

WriteRawBlockAdvance(st, size) ==
  IF ok(st) THEN [st EXCEPT !.rep.offset = AdvanceOffset(@, size),
                            !.handles = Append(@, st.handle)]
            ELSE st

\* WriteRawBlock, after the contents' Append
WriteRawBlockTrailer(st, block_contents, type) ==
  IF ok(st)
    THEN WriteRawBlockAdvance(File_Append(st, BlockTrailer(block_contents, type)),
                              Len(block_contents))
    ELSE st

\* TableBuilder::WriteRawBlock
WriteRawBlock(st, block_contents, type) ==
  WriteRawBlockTrailer(
    File_Append(WriteRawBlockHandle(st, Len(block_contents)), block_contents),
    block_contents, type)

\* WriteBlock: "switch (type)" on the raw bytes of the finished block
WriteBlockCompressed(st, raw) ==
  IF /\ st.rep.options.compression = kSnappyCompression
     /\ st.snappy
     /\ Len(Snappy_Compress(raw)) < Len(raw) - (Len(raw) \div 8)
    THEN WriteRawBlock(st, Snappy_Compress(raw), kSnappyCompression)
    ELSE WriteRawBlock(st, raw, kNoCompression)

\* TableBuilder::WriteBlock, but for "block->Reset()", which the caller of
\* this operator does on the block it handed in.
WriteBlock(st, block) == WriteBlockCompressed(st, BlockBuilder_Finish(block).buffer_)

\* Flush, after WriteBlock took "before" to "st": pending_handle was the
\* handle written to, the block is Reset, and "if (ok())" the index entry
\* is pending and the file flushed.
FlushWritten(before, st) ==
  IF ok(st)
    THEN File_Flush(
           [st EXCEPT !.rep.pending_handle = st.handle,
                      !.rep.data_block = BlockBuilder_Reset(@),
                      !.rep.pending_index_entry = TRUE,
                      !.aborted = Check(@, ~before.rep.pending_index_entry,
                                        "Flush: assert(!r->pending_index_entry)"),
                      !.ends = Append(@, Len(st.added)),
                      !.blocks = Append(@,
                         [offset |-> Len(before.file),
                          size |-> Len(st.file) - Len(before.file) - kBlockTrailerSize])])
    ELSE [st EXCEPT !.rep.pending_handle = st.handle,
                    !.rep.data_block = BlockBuilder_Reset(@),
                    !.aborted = Check(@, ~before.rep.pending_index_entry,
                                      "Flush: assert(!r->pending_index_entry)")]

\* Flush: "r->filter_block->StartBlock(r->offset)"
FlushStartBlock(st) ==
  IF HasFilter(st.rep)
    THEN IF StartBlockAssert(st.rep.filter_block, st.rep.offset)
           THEN [st EXCEPT !.rep.filter_block =
                   StartBlock(@, st.rep.policy_, st.rep.offset)]
           ELSE [st EXCEPT !.aborted = Check(@, FALSE, "StartBlock: assert")]
    ELSE st

\* A plausible slip: Flush does not look at closed.
FlushAssertSkipped(r) == TRUE

\* Flush: "assert(!r->closed)"
FlushAssert(r) == ~r.closed

\* TableBuilder::Flush
TableBuilder_Flush(st) ==
  IF ~FlushAssert(st.rep) THEN [st EXCEPT !.aborted = Check(@, FALSE, "assert(!r->closed)")]
  ELSE IF ~ok(st) THEN st
  ELSE IF BlockBuilder_empty(st.rep.data_block) THEN st
  ELSE FlushStartBlock(FlushWritten(st, WriteBlock(st, st.rep.data_block)))

\* A plausible slip: the entry points at where the file is now, not at the
\* block that was flushed.
IndexEntryValueCurrentOffset(r) ==
  BlockHandle_EncodeTo([offset |-> r.offset, size |-> r.pending_handle.size])

\* Add and Finish: "r->pending_handle.EncodeTo(&handle_encoding)"
IndexEntryValue(r) == BlockHandle_EncodeTo(r.pending_handle)

\* A plausible slip: the entry stays pending once it is emitted.
AddIndexEntryStaysPending(st, key) ==
  [st EXCEPT !.rep.last_key = key,
             !.rep.index_block = BlockBuilder_Add(@, key, IndexEntryValue(st.rep)),
             !.index = Append(@, key)]

\* Add and Finish: the index entry of the block flushed last, under "key",
\* which becomes last_key.
AddIndexEntry(st, key) ==
  [st EXCEPT !.rep.last_key = key,
             !.rep.index_block = BlockBuilder_Add(@, key, IndexEntryValue(st.rep)),
             !.rep.pending_index_entry = FALSE,
             !.index = Append(@, key),
             !.aborted = Check(@, BlockBuilder_AddAssert(st.rep.index_block, key),
                                  "BlockBuilder::Add: assert")]

\* TableBuilder::Add: "assert(!r->closed)" and the order of the keys
TableBuilder_AddAssert(r, key) ==
  /\ ~r.closed
  /\ (r.num_entries > 0 => BytewiseCompare(key, r.last_key) > 0)

\* Add: "assert(r->data_block.empty())"
AddAssertEmpty(st) ==
  [st EXCEPT !.aborted = Check(@, BlockBuilder_empty(st.rep.data_block),
                               "Add: assert(r->data_block.empty())")]

\* A plausible slip: the index entry gets the key that starts the next block.
AddPendingIndexEntryNextKey(st, key) ==
  IF st.rep.pending_index_entry
    THEN AddIndexEntry(AddAssertEmpty(st), key)
    ELSE st

\* A plausible slip: Add shortens the index key as Finish does, without
\* looking at the key that starts the next block.
AddPendingIndexEntrySuccessor(st, key) ==
  IF st.rep.pending_index_entry
    THEN AddIndexEntry(AddAssertEmpty(st), FindShortSuccessor(st.rep.last_key))
    ELSE st

\* Add: "if (r->pending_index_entry)"
AddPendingIndexEntry(st, key) ==
  IF st.rep.pending_index_entry
    THEN AddIndexEntry(AddAssertEmpty(st), FindShortestSeparator(st.rep.last_key, key))
    ELSE st

\* Add: "r->filter_block->AddKey(key)"
AddFilterKey(st, key) ==
  IF HasFilter(st.rep) THEN [st EXCEPT !.rep.filter_block = AddKey(@, key)] ELSE st

\* Add: last_key, num_entries, "r->data_block.Add(key, value)"
AddToDataBlock(st, key, value) ==
  [st EXCEPT !.rep.last_key = key,
             !.rep.num_entries = @ + 1,
             !.rep.data_block = BlockBuilder_Add(@, key, value),
             !.added = Append(@, key),
             !.aborted = Check(@, BlockBuilder_AddAssert(st.rep.data_block, key),
                                  "BlockBuilder::Add: assert")]

\* Add: "if (estimated_block_size >= r->options.block_size) Flush()"
AddFlushWhenFull(st) ==
  IF BlockBuilder_CurrentSizeEstimate(st.rep.data_block) >= st.rep.options.block_size
    THEN TableBuilder_Flush(st)
    ELSE st

\* TableBuilder::Add
TableBuilder_Add(st, key, value) ==
  IF st.rep.closed THEN [st EXCEPT !.aborted = Check(@, FALSE, "assert(!r->closed)")]
  ELSE IF ~ok(st) THEN st
  ELSE AddFlushWhenFull(
         AddToDataBlock(AddFilterKey(AddPendingIndexEntry(st, key), key), key, value))

\* Finish: "assert(!r->closed); r->closed = true" and the three handles, not
\* yet set
FinishClosed(st) ==
  IF ~Alive(st) THEN st
  ELSE IF st.rep.closed THEN [st EXCEPT !.aborted = Check(@, FALSE, "assert(!r->closed)")]
  ELSE [st EXCEPT !.rep.closed = TRUE]

\* Finish: the filter block, finished as "f", is written
FinishFilterWritten(st, f) ==
  WriteRawBlock([st EXCEPT !.rep.filter_block = f], f.result_, kNoCompression)

\* What WriteRawBlock wrote to "&filter_block_handle"
FilterBlockHandleOf(st) == [st EXCEPT !.filter_block_handle = st.handle]

\* A plausible slip: Finish leaves the filter block out.
FinishFilterBlockSkipped(st) == st

\* Finish: "Write filter block"
FinishFilterBlock(st) ==
  IF Alive(st) /\ ok(st) /\ HasFilter(st.rep)
    THEN FilterBlockHandleOf(
           FinishFilterWritten(st,
             FilterBlockBuilder_Finish(st.rep.filter_block, st.rep.policy_)))
    ELSE st

\* Finish: the meta_index_block before it is written
MetaIndexBlock(st) ==
  IF HasFilter(st.rep)
    THEN BlockBuilder_Add(BlockBuilder_New(st.rep.options.block_restart_interval),
                          FilterMetaKey(st.rep.options.filter_policy),
                          BlockHandle_EncodeTo(st.filter_block_handle))
    ELSE BlockBuilder_New(st.rep.options.block_restart_interval)

\* What WriteBlock wrote to "&metaindex_block_handle"
MetaindexBlockHandleOf(st) == [st EXCEPT !.metaindex_block_handle = st.handle]

\* Finish: "Write metaindex block"
FinishMetaindexBlock(st) ==
  IF Alive(st) /\ ok(st)
    THEN IF HasFilter(st.rep) /\ st.rep.options.filter_policy = "nullptr"
           THEN [st EXCEPT !.aborted = Check(@, FALSE, "filter_policy->Name(): nullptr")]
           ELSE MetaindexBlockHandleOf(WriteBlock(st, MetaIndexBlock(st)))
    ELSE st

\* Finish: "if (r->pending_index_entry)"
FinishPendingIndexEntry(st) ==
  IF st.rep.pending_index_entry
    THEN AddIndexEntry(st, FindShortSuccessor(st.rep.last_key))
    ELSE st

\* Finish: the index block is written and Reset
FinishIndexWritten(st) ==
  [WriteBlock(st, st.rep.index_block) EXCEPT !.rep.index_block = BlockBuilder_Reset(@)]

\* What WriteBlock wrote to "&index_block_handle"
IndexBlockHandleOf(st) == [st EXCEPT !.index_block_handle = st.handle]

\* Finish: "Write index block"
FinishIndexBlock(st) ==
  IF Alive(st) /\ ok(st)
    THEN IndexBlockHandleOf(FinishIndexWritten(FinishPendingIndexEntry(st)))
    ELSE st

\* Finish: "r->offset += footer_encoding.size()"
\* A plausible slip: the footer is appended and not counted.
FinishFooterNotCounted(st) == st

FinishFooterAppended(st) ==
  IF ok(st) THEN [st EXCEPT !.rep.offset = @ + kEncodedLength] ELSE st

\* Finish: "Write footer"
FinishFooter(st) ==
  IF Alive(st) /\ ok(st)
    THEN FinishFooterAppended(
           File_Append(st, Footer_EncodeTo(st.metaindex_block_handle,
                                           st.index_block_handle)))
    ELSE st

\* TableBuilder::Finish; the Status returned is rep.status.
TableBuilder_Finish(st) ==
  FinishFooter(FinishIndexBlock(FinishMetaindexBlock(FinishFilterBlock(
    FinishClosed(TableBuilder_Flush(st))))))

\* TableBuilder::Abandon
TableBuilder_Abandon(st) ==
  IF st.rep.closed THEN [st EXCEPT !.aborted = Check(@, FALSE, "assert(!r->closed)")]
  ELSE [st EXCEPT !.rep.closed = TRUE]

\* A plausible slip: the index block is left with the restart interval of
\* the new options.
IndexBlockOptionsAsGiven(options) == options

\* ChangeOptions: "rep_->index_block_options = options;
\* rep_->index_block_options.block_restart_interval = 1"
IndexBlockOptions(options) == [options EXCEPT !.block_restart_interval = 1]

\* TableBuilder::ChangeOptions; the live BlockBuilders read the interval of
\* the Options they point to. The Status returned is "changed".
TableBuilder_ChangeOptions(st, options) ==
  IF options.comparator # st.rep.options.comparator
    THEN [st EXCEPT !.changed = "InvalidArgument", !.given = <<options>>]
    ELSE [st EXCEPT !.rep.options = options,
                    !.given = <<options>>,
                    !.rep.index_block_options = IndexBlockOptions(options),
                    !.rep.data_block.block_restart_interval =
                       options.block_restart_interval,
                    !.rep.index_block.block_restart_interval =
                       IndexBlockOptions(options).block_restart_interval,
                    !.changed = "OK"]

\* TableBuilder::status
status(r) == r.status

\* TableBuilder::NumEntries
NumEntries(r) == r.num_entries

\* TableBuilder::FileSize
FileSize(r) == r.offset

\* ----- Reading a table back, by the layout the file documents ------------

\* The compression type in the trailer of the block "handle" names.
BlockType(bytes, handle) == bytes[handle.offset + handle.size + 1]

\* The contents of the block "handle" names, uncompressed.
ReadBlock(bytes, handle) ==
  IF BlockType(bytes, handle) = kSnappyCompression
    THEN Snappy_Uncompress(SubSeq(bytes, handle.offset + 1, handle.offset + handle.size))
    ELSE SubSeq(bytes, handle.offset + 1, handle.offset + handle.size)

\* The handles that the values of decoded block entries hold.
EntryHandles(entries) ==
  [i \in 1..Len(entries) |->
     [offset |-> BlockHandle_DecodeFrom(entries[i].value, 0).offset,
      size |-> BlockHandle_DecodeFrom(entries[i].value, 0).size]]

\* The handles in the index block of a finished table file.
IndexHandles(bytes) ==
  EntryHandles(BlockDecode(ReadBlock(bytes, Footer_DecodeFrom(bytes).index_handle)))

\* Whether the block "handle" names, trailer included, ends by "limit".
HandleInside(handle, limit) ==
  handle.offset >= 0 /\ handle.offset + handle.size + kBlockTrailerSize <= limit

\* ----- State after construction, and the operations -----------------------

\* The calls on the file one operation can make: two Appends a block, a
\* Flush; Finish writes the last data block, three more blocks and the footer.
AppendsPerBlock == 2

FlushFileCalls == AppendsPerBlock + 1

FinishFileCalls == FlushFileCalls + 3 * AppendsPerBlock + 1

TableOptions ==
  [comparator : {"bytewise"},
   block_size : {16, 4096},
   block_restart_interval : {1, 16},
   compression : {kNoCompression, kSnappyCompression},
   filter_policy : {"nullptr"} \cup Policies]

\* The Options given to ChangeOptions: another comparator or the same, another
\* restart interval, a filter policy or none.
ChangedOptions ==
  [comparator : Comparators,
   block_size : {16},
   block_restart_interval : {1, 16},
   compression : {kSnappyCompression},
   filter_policy : {"nullptr", "hash"}]

\* The builder as its constructor leaves it: with a filter policy,
\* "rep_->filter_block->StartBlock(0)" has run.
TableBuilder_New(options) ==
  IF options.filter_policy # "nullptr"
    THEN [Rep_New(options) EXCEPT !.filter_block = StartBlock(@, options.filter_policy, 0)]
    ELSE Rep_New(options)

TableHistInit ==
  [blocks |-> <<>>, finish |-> "none", aborted |-> "no", changed |-> "none",
   given |-> <<>>,
   added |-> <<>>, ends |-> <<>>, index |-> <<>>, appends |-> <<>>, handles |-> <<>>]

TableInit ==
  /\ \E options \in TableOptions : rep_ = TableBuilder_New(options)
  /\ file = <<>>
  /\ snappy_ \in BOOLEAN
  /\ tbHist = TableHistInit

\* A builder made with a filter policy and Snappy, whose options later calls
\* of ChangeOptions replace.
TableOptionsInit ==
  /\ rep_ = TableBuilder_New([comparator |-> "bytewise", block_size |-> 16,
                              block_restart_interval |-> 16,
                              compression |-> kSnappyCompression,
                              filter_policy |-> "hash"])
  /\ file = <<>>
  /\ snappy_ = TRUE
  /\ tbHist = TableHistInit

TableParked ==
  /\ rep_ = TableBuilder_New([comparator |-> "bytewise", block_size |-> 4096,
                              block_restart_interval |-> 16,
                              compression |-> kNoCompression, filter_policy |-> "nullptr"])
  /\ file = <<>>
  /\ snappy_ = FALSE
  /\ tbHist = TableHistInit

\* What a call starts from, the file letting "luck" calls succeed.
TableState(luck) ==
  [rep |-> rep_, file |-> file, snappy |-> snappy_, luck |-> luck,
   handle |-> NoHandle, filter_block_handle |-> NoHandle,
   metaindex_block_handle |-> NoHandle, index_block_handle |-> NoHandle,
   blocks |-> tbHist.blocks, aborted |-> tbHist.aborted, changed |-> "none",
   given |-> <<>>,
   added |-> tbHist.added, ends |-> tbHist.ends, index |-> tbHist.index,
   appends |-> tbHist.appends, handles |-> tbHist.handles]

\* What a call leaves behind; "finish" is what the history keeps of how the
\* builder was closed.
TableBecomes(st, finish) ==
  /\ rep_' = st.rep
  /\ file' = st.file
  /\ tbHist' = [blocks |-> st.blocks, aborted |-> st.aborted, finish |-> finish,
                changed |-> st.changed, given |-> st.given, added |-> st.added, ends |-> st.ends,
                index |-> st.index, appends |-> st.appends, handles |-> st.handles]
  /\ UNCHANGED snappy_

\* What Finish leaves behind: the history keeps the Status returned.
TableFinished(st) ==
  TableBecomes(st, IF Alive(st) THEN st.rep.status ELSE tbHist.finish)

\* The program runs: no assert has failed.
TableOpen == tbHist.aborted = "no"

\* Add(key, value); while the builder is open the caller gives the keys in
\* ascending order.
TBAdd ==
  \E key \in TableKeys, value \in TableValues, luck \in 0..FlushFileCalls :
    /\ TableOpen
    /\ rep_.num_entries < MaxTableEntries
    /\ rep_.closed \/ TableBuilder_AddAssert(rep_, key)
    /\ TableBecomes(TableBuilder_Add(TableState(luck), key, value), tbHist.finish)

\* Flush()
TBFlush ==
  \E luck \in 0..FlushFileCalls :
    /\ TableOpen
    /\ TableBecomes(TableBuilder_Flush(TableState(luck)), tbHist.finish)

\* Finish()
TBFinish ==
  \E luck \in 0..FinishFileCalls :
    /\ TableOpen
    /\ TableFinished(TableBuilder_Finish(TableState(luck)))

\* Abandon()
TBAbandon ==
  /\ TableOpen
  /\ TableBecomes(TableBuilder_Abandon(TableState(0)),
                  IF rep_.closed THEN tbHist.finish ELSE "abandoned")

\* ChangeOptions(options)
TBChangeOptions ==
  \E options \in ChangedOptions :
    /\ TableOpen
    /\ TableBecomes(TableBuilder_ChangeOptions(TableState(0), options),
                    tbHist.finish)

TableNext ==
  \/ TBAdd /\ UNCHANGED outsideTableBuilder
  \/ TBFlush /\ UNCHANGED outsideTableBuilder
  \/ TBFinish /\ UNCHANGED outsideTableBuilder
  \/ TBAbandon /\ UNCHANGED outsideTableBuilder

\* The builder's operations, ChangeOptions among them.
TableOptionsNext ==
  \/ TBAdd /\ UNCHANGED outsideTableBuilder
  \/ TBFlush /\ UNCHANGED outsideTableBuilder
  \/ TBFinish /\ UNCHANGED outsideTableBuilder
  \/ TBAbandon /\ UNCHANGED outsideTableBuilder
  \/ TBChangeOptions /\ UNCHANGED outsideTableBuilder

(***************************************************************************)
(*                                 Arena                                   *)
(***************************************************************************)

\* Bounds of the model.
MaxArenaCalls == 5   \* allocations asked of one Arena

kBlockSize == 4096

\* The sizes asked for: small and odd, a quarter of kBlockSize, one byte
\* more, and most of a block.
ArenaSizes == {3, kBlockSize \div 4, kBlockSize \div 4 + 1, 3000}

\* The size of a pointer in the builds: 32-bit and 64-bit.
PointerSizes == {4, 8}

\* Where operator new puts the first region; every region starts at a
\* multiple of 8.
HeapStart == 8

\* The address "new char[block_bytes]" returns.
NewAt(top) == ((top + 7) \div 8) * 8

\* Arena::Arena; nullptr is address 0.
Arena_New ==
  [alloc_ptr_ |-> 0, alloc_bytes_remaining_ |-> 0, blocks_ |-> <<>>, memory_usage_ |-> 0]

\* The operations below take and give a record "st": arena (the members),
\* heap, sizeof_ptr (the size of a pointer), result (the address returned)
\* and current (history: which of blocks_ the cursor was last set into, 0
\* while it is nullptr).

\* Arena::AllocateNewBlock; blocks_ keeps the size beside the pointer.
AllocateNewBlock(st, block_bytes) ==
  [st EXCEPT !.arena.blocks_ = Append(@, [base |-> NewAt(st.heap), size |-> block_bytes]),
             !.arena.memory_usage_ = @ + block_bytes + st.sizeof_ptr,
             !.heap = NewAt(st.heap) + block_bytes,
             !.result = NewAt(st.heap)]

\* AllocateFallback: "alloc_ptr_ = AllocateNewBlock(kBlockSize)" and the
\* allocation at its start
FallbackInNewBlock(st, bytes) ==
  [st EXCEPT !.arena.alloc_ptr_ = st.result + bytes,
             !.arena.alloc_bytes_remaining_ = kBlockSize - bytes,
             !.current = Len(st.arena.blocks_)]

\* A plausible slip: every request that does not fit starts a new current
\* region.
AllocateFallbackAlwaysNewBlock(st, bytes) ==
  FallbackInNewBlock(AllocateNewBlock(st, IF bytes > kBlockSize THEN bytes ELSE kBlockSize),
                     bytes)

\* Arena::AllocateFallback
AllocateFallback(st, bytes) ==
  IF bytes > kBlockSize \div 4
    THEN AllocateNewBlock(st, bytes)
    ELSE FallbackInNewBlock(AllocateNewBlock(st, kBlockSize), bytes)

\* A plausible slip: the padding is not taken off the remaining bytes.
BumpForgetsSlop(st, slop, needed) ==
  [st EXCEPT !.arena.alloc_ptr_ = @ + needed,
             !.arena.alloc_bytes_remaining_ = @ - (needed - slop),
             !.result = st.arena.alloc_ptr_ + slop]

\* Allocation from the current region: the cursor moves by "needed", the
\* result lies "slop" bytes after where it was.
Bump(st, slop, needed) ==
  [st EXCEPT !.arena.alloc_ptr_ = @ + needed,
             !.arena.alloc_bytes_remaining_ = @ - needed,
             !.result = st.arena.alloc_ptr_ + slop]

\* Arena::Allocate (util/arena.h)
Allocate(st, bytes) ==
  IF bytes <= st.arena.alloc_bytes_remaining_
    THEN Bump(st, 0, bytes)
    ELSE AllocateFallback(st, bytes)

\* AllocateAligned: "align"
Align(sizeof_ptr) == IF sizeof_ptr > 8 THEN sizeof_ptr ELSE 8

\* AllocateAligned: "current_mod"
CurrentMod(a, align) == a.alloc_ptr_ % align

\* A plausible slip: the padding is what the cursor is past the boundary.
SlopIsCurrentMod(a, align) == CurrentMod(a, align)

\* AllocateAligned: "slop"
Slop(a, align) ==
  IF CurrentMod(a, align) = 0 THEN 0 ELSE align - CurrentMod(a, align)

\* Arena::AllocateAligned, up to its assert
AllocateAligned(st, bytes) ==
  IF bytes + Slop(st.arena, Align(st.sizeof_ptr)) <= st.arena.alloc_bytes_remaining_
    THEN Bump(st, Slop(st.arena, Align(st.sizeof_ptr)),
              bytes + Slop(st.arena, Align(st.sizeof_ptr)))
    ELSE AllocateFallback(st, bytes)

\* AllocateAligned: "assert((result & (align - 1)) == 0)"
AllocateAlignedAssert(st) == st.result % Align(st.sizeof_ptr) = 0

\* ----- State after construction, and the operations -----------------------

ArenaHistInit(sizeof_ptr) ==
  [sizeof_ptr |-> sizeof_ptr, calls |-> 0, op |-> "none", bytes |-> 0, result |-> 0,
   aborted |-> FALSE, current |-> 0, regions |-> <<>>]

ArenaInit ==
  /\ arena = Arena_New
  /\ heap = HeapStart
  /\ \E sizeof_ptr \in PointerSizes : arHist = ArenaHistInit(sizeof_ptr)

ArenaParked ==
  /\ arena = Arena_New
  /\ heap = HeapStart
  /\ arHist = ArenaHistInit(8)

\* What a call starts from.
ArenaState ==
  [arena |-> arena, heap |-> heap, sizeof_ptr |-> arHist.sizeof_ptr, result |-> 0,
   current |-> arHist.current]

\* What the call "op" of "bytes" bytes leaves behind.
ArenaBecomes(st, op, bytes, asserted) ==
  /\ arena' = st.arena
  /\ heap' = st.heap
  /\ arHist' = [arHist EXCEPT !.calls = @ + 1, !.op = op, !.bytes = bytes,
                              !.result = st.result, !.aborted = ~asserted,
                              !.current = st.current,
                              !.regions = Append(@, [base |-> st.result, size |-> bytes])]

ArenaOpen == arHist.calls < MaxArenaCalls /\ ~arHist.aborted

\* Allocate(bytes)
ARAllocate ==
  \E bytes \in ArenaSizes :
    /\ ArenaOpen
    /\ ArenaBecomes(Allocate(ArenaState, bytes), "Allocate", bytes, TRUE)

\* AllocateAligned(bytes)
ARAllocateAligned ==
  \E bytes \in ArenaSizes :
    /\ ArenaOpen
    /\ ArenaBecomes(AllocateAligned(ArenaState, bytes), "AllocateAligned", bytes,
                    AllocateAlignedAssert(AllocateAligned(ArenaState, bytes)))

ArenaNext ==
  \/ ARAllocate /\ UNCHANGED outsideArena
  \/ ARAllocateAligned /\ UNCHANGED outsideArena

(***************************************************************************)
(*                    TableCache  (db/table_cache.cc)                      *)
(***************************************************************************)

MaxFindCalls == 4    \* FindTable calls made on one TableCache

\* The file numbers asked for: their keys differ in the second byte only.
FileNumbers == {1, 257}

\* What the environment answers during one call: whether the .ldb name opens,
\* whether the .sst name opens, whether Table::Open accepts the file.
EnvAnswers == [ldb : BOOLEAN, sst : BOOLEAN, open : BOOLEAN]

RECURSIVE LittleEndian(_, _)
\* The n low bytes of v, lowest first.
LittleEndian(v, n) ==
  IF n = 0 THEN <<>> ELSE <<v % 256>> \o LittleEndian(v \div 256, n - 1)

\* util/coding.h: EncodeFixed64
EncodeFixed64(v) == LittleEndian(v, 8)

\* db/filename.h: TableFileName, the name with the extension .ldb
TableFileName(number) == [number |-> number, ext |-> "ldb"]

\* db/filename.h: SSTTableFileName, the name with the extension .sst
SSTTableFileName(number) == [number |-> number, ext |-> "sst"]

\* "RandomAccessFile* file = nullptr"
NoFile == [number |-> 0, ext |-> ""]

\* "Table* table = nullptr"
NoTable == [file |-> NoFile]

\* A Cache::Handle* that is nullptr; a handle that is not is the entry's key.
NoCacheHandle == <<>>

\* NewLRUCache(entries): no entry.  The cache holds every table of the model.
NewLRUCache == {}

\* Cache::Lookup(key)
Cache_Lookup(cache, key) ==
  IF \E e \in cache : e.key = key THEN key ELSE NoCacheHandle

\* Cache::Insert(key, value, ...): the entry replaces one of the same key
Cache_Insert(cache, key, value) ==
  {e \in cache : e.key # key} \cup {[key |-> key, value |-> value]}

\* Cache::Erase(key)
Cache_Erase(cache, key) == {e \in cache : e.key # key}

\* Env::NewRandomAccessFile(fname, &file): the status
Env_NewRandomAccessFile(env, fname) ==
  IF env[fname.ext] THEN "OK" ELSE "IOError: " \o fname.ext

\* Table::Open(options_, file, file_size, &table): the status
Table_Open(env) == IF env.open THEN "OK" ELSE "Corruption"

\* FindTable: "*handle = cache_->Lookup(key)", s is OK
FindTableLookup(st, file_number) ==
  [st EXCEPT !.s = "OK",
             !.handle = Cache_Lookup(st.cache, EncodeFixed64(file_number))]

\* FindTable: "s = env_->NewRandomAccessFile(fname, &file)"
FindTableOpenFile(st, file_number) ==
  [st EXCEPT !.s = Env_NewRandomAccessFile(st.env, TableFileName(file_number)),
             !.tried = Append(@, TableFileName(file_number)),
             !.file = IF st.env.ldb THEN TableFileName(file_number) ELSE NoFile]

\* FindTable: "if (!s.ok()) { ... old_fname ... s = Status::OK(); }"
FindTableOpenOldFile(st, file_number) ==
  IF st.s # "OK"
    THEN [st EXCEPT
            !.tried = Append(@, SSTTableFileName(file_number)),
            !.file = IF st.env.sst THEN SSTTableFileName(file_number) ELSE NoFile,
            !.s = IF Env_NewRandomAccessFile(st.env, SSTTableFileName(file_number)) = "OK"
                    THEN "OK" ELSE @]
    ELSE st

\* FindTable: "if (s.ok()) { s = Table::Open(...); }"
FindTableOpenTable(st) ==
  IF st.s = "OK"
    THEN [st EXCEPT !.s = Table_Open(st.env), !.opened = TRUE,
                    !.table = IF st.env.open THEN [file |-> st.file] ELSE NoTable]
    ELSE st

\* A plausible slip: the result is cached whatever the status.
FindTableInsertAlways(st, file_number) ==
  [st EXCEPT
     !.cache = Cache_Insert(st.cache, EncodeFixed64(file_number),
                            [file |-> st.file, table |-> st.table]),
     !.handle = EncodeFixed64(file_number)]

\* FindTable: "if (!s.ok()) { delete file; } else { ... cache_->Insert ... }"
FindTableInsert(st, file_number) ==
  IF st.s # "OK"
    THEN [st EXCEPT !.file = NoFile]
    ELSE [st EXCEPT
            !.cache = Cache_Insert(st.cache, EncodeFixed64(file_number),
                                   [file |-> st.file, table |-> st.table]),
            !.handle = EncodeFixed64(file_number)]

\* FindTable: the body of "if (*handle == nullptr)"
FindTableMiss(st, file_number) ==
  FindTableInsert(
    FindTableOpenTable(
      FindTableOpenOldFile(FindTableOpenFile(st, file_number), file_number)),
    file_number)

\* TableCache::FindTable
FindTable(st, file_number) ==
  IF FindTableLookup(st, file_number).handle = NoCacheHandle
    THEN FindTableMiss(FindTableLookup(st, file_number), file_number)
    ELSE FindTableLookup(st, file_number)

\* TableCache::Evict
Evict(cache, file_number) == Cache_Erase(cache, EncodeFixed64(file_number))

\* ----- State after construction, and the operations -----------------------

TableCacheHistInit ==
  [calls |-> 0, op |-> "none", file_number |-> 0,
   env |-> [ldb |-> TRUE, sst |-> TRUE, open |-> TRUE],
   s |-> "OK", handle |-> NoCacheHandle, tried |-> <<>>, opened |-> FALSE,
   retried |-> FALSE, failed |-> {}]

TableCacheInit ==
  /\ cache_ = NewLRUCache
  /\ tcHist = TableCacheHistInit

TableCacheParked == TableCacheInit

\* What a FindTable call starts from, the environment answering "env".
TableCacheState(env) ==
  [cache |-> cache_, env |-> env, s |-> "OK", handle |-> NoCacheHandle,
   file |-> NoFile, table |-> NoTable, tried |-> <<>>, opened |-> FALSE]

\* What FindTable(file_number) leaves behind.
TableCacheBecomes(st, file_number) ==
  /\ cache_' = st.cache
  /\ tcHist' = [tcHist EXCEPT
                  !.calls = @ + 1, !.op = "FindTable",
                  !.file_number = file_number, !.env = st.env,
                  !.s = st.s, !.handle = st.handle, !.tried = st.tried,
                  !.opened = st.opened,
                  !.retried = file_number \in tcHist.failed,
                  !.failed = IF st.s = "OK" THEN @ \ {file_number}
                                            ELSE @ \cup {file_number}]

\* FindTable(file_number, file_size, &handle)
TCFindTable ==
  \E file_number \in FileNumbers, env \in EnvAnswers :
    /\ tcHist.calls < MaxFindCalls
    /\ TableCacheBecomes(FindTable(TableCacheState(env), file_number), file_number)

\* Evict(file_number)
TCEvict ==
  \E file_number \in FileNumbers :
    /\ tcHist.op = "FindTable"
    /\ cache_' = Evict(cache_, file_number)
    /\ tcHist' = [tcHist EXCEPT !.op = "Evict", !.file_number = file_number]

TableCacheNext ==
  \/ TCFindTable /\ UNCHANGED outsideTableCache
  \/ TCEvict /\ UNCHANGED outsideTableCache

(***************************************************************************)
(*                            Specifications                               *)
(***************************************************************************)

\* Each specification runs one component; the others keep the value their
\* constructor gave them.

SkipSeqInit == SkipInit /\ BlockParked /\ FilterParked /\ TableParked /\ ArenaParked
  /\ TableCacheParked

SkipSeqSpec == SkipSeqInit /\ [][SkipSeqNext]_vars

SkipConcInit == SkipInit /\ BlockParked /\ FilterParked /\ TableParked /\ ArenaParked
  /\ TableCacheParked

SkipConcSpec == SkipConcInit /\ [][SkipConcNext]_vars

\* The reader thread keeps running: a read operation that has a step to take
\* takes it in the end.  Nothing is asked of the writer, which may stop for
\* good between any two of its stores, and nothing of the caller, who may
\* never start another operation.
SkipConcLiveSpec ==
  /\ SkipConcInit
  /\ [][SkipConcNext]_vars
  /\ WF_vars(ReaderAdvance /\ UNCHANGED outsideSkipList)

BlockSpecInit == SkipInit /\ BlockInit /\ FilterParked /\ TableParked /\ ArenaParked
  /\ TableCacheParked

BlockSpec == BlockSpecInit /\ [][BlockNext]_vars

FilterSpecInit == SkipInit /\ BlockParked /\ FilterInit /\ TableParked /\ ArenaParked
  /\ TableCacheParked

FilterSpec == FilterSpecInit /\ [][FilterNext]_vars

TableSpecInit == SkipInit /\ BlockParked /\ FilterParked /\ TableInit /\ ArenaParked
  /\ TableCacheParked

TableSpec == TableSpecInit /\ [][TableNext]_vars

TableOptionsSpecInit == SkipInit /\ BlockParked /\ FilterParked /\ TableOptionsInit /\ ArenaParked
  /\ TableCacheParked

TableOptionsSpec == TableOptionsSpecInit /\ [][TableOptionsNext]_vars

ArenaSpecInit == SkipInit /\ BlockParked /\ FilterParked /\ TableParked /\ ArenaInit
  /\ TableCacheParked

ArenaSpec == ArenaSpecInit /\ [][ArenaNext]_vars

TableCacheSpecInit == SkipInit /\ BlockParked /\ FilterParked /\ TableParked /\ ArenaParked
  /\ TableCacheInit

TableCacheSpec == TableCacheSpecInit /\ [][TableCacheNext]_vars

(***************************************************************************)
(*                              Properties                                 *)
(***************************************************************************)

RECURSIVE SortedSeq(_)
\* The keys of S in ascending comparator order.
SortedSeq(S) ==
  IF S = {} THEN <<>>
  ELSE LET m == CHOOSE a \in S : \A b \in S : compare_(a, b) <= 0
       IN <<m>> \o SortedSeq(S \ {m})

\* C1: after any sequence of Insert calls with distinct keys, a scan from
\* SeekToFirst by Next visits the inserted keys in strictly ascending
\* comparator order, and when the iterator becomes invalid it has visited
\* exactly the inserted keys, each once.
C1_ScanVisitsKeysAscending ==
  scan.state # "none" =>
    /\ Len(scan.visited) <= Cardinality(hist.returned)
    /\ scan.visited = SubSeq(SortedSeq(hist.returned), 1, Len(scan.visited))
    /\ scan.state = "done" => scan.visited = SortedSeq(hist.returned)

\* A complete scan of a full list whose keys were not inserted in order.
C1_Witness ==
  /\ scan.state = "done"
  /\ Len(scan.visited) = MaxKey + 1
  /\ max_height_ > 1

\* C2: with no operation in progress, Contains(K) returns true exactly for
\* the keys K that were inserted.
C2_ContainsIffInserted ==
  [][SeqContains => (rd'.result <=> rd'.key \in hist.returned)]_vars

\* Contains answered true on a list of several levels, and the key was not
\* the first one inserted.
C2_Witness ==
  /\ rd.op = "Contains"
  /\ rd.result
  /\ max_height_ > 1
  /\ Cardinality(hist.returned) > 1

\* C3: under any interleaving of the writer's and the reader's loads and
\* stores, a Contains(k) that returned true is for a key k whose Insert the
\* writer has invoked.
C3_PositiveContainsWasInserted ==
  (rd.op = "Contains" /\ rd.pc = "idle" /\ rd.result) => rd.key \in hist.invoked

\* Contains(k) returned true while Insert(k) was still linking upper levels.
C3_Witness ==
  /\ rd.op = "Contains" /\ rd.pc = "idle" /\ rd.result
  /\ w.pc # "idle" /\ w.key = rd.key
  /\ rd.key \notin hist.returned

\* C4: no reader ever loads a link slot that has not been written, and a
\* link at level L only ever points at a node whose own level-L link has
\* been written.
C4_NoUnwrittenLinkLoaded ==
  /\ ~torn
  /\ \A n \in Nodes : \A L \in DOMAIN next_[n] :
       next_[n][L] \in Nodes => (L \in DOMAIN next_[next_[n][L]]
                                 /\ next_[next_[n][L]][L] # Uninit)

\* The reader's search stands on the node the writer is still linking, whose
\* upper link is not written yet.
C4_Witness ==
  /\ rd.pc = "search"
  /\ w.pc \in {"link_init", "link_publish"}
  /\ rd.f.x = w.x
  /\ \E L \in DOMAIN next_[w.x] : next_[w.x][L] = Uninit

\* C5: the bytes Finish returns decode, by the documented entry format, to
\* exactly the pairs given to Add, in order; and decoding from any restart
\* offset with no previous key yields the pairs from that restart entry on.
C5_BlockRoundTrip ==
  bb.finished_ =>
    /\ Pairs(BlockDecode(bb.buffer_)) = bbAdded
    /\ \A j \in 1..BlockNumRestarts(bb.buffer_) :
         Pairs(BlockEntries(bb.buffer_, BlockRestarts(bb.buffer_)[j],
                            BlockRestartOffset(bb.buffer_), <<>>))
           = SubSeq(bbAdded, (j - 1) * bb.block_restart_interval + 1, Len(bbAdded))

\* A finished block with a prefix-compressed entry and a second restart.
C5_Witness ==
  /\ bb.finished_
  /\ Len(bbAdded) = MaxBlockEntries
  /\ BlockNumRestarts(bb.buffer_) > 1
  /\ \E i \in 1..Len(bbAdded) : BlockDecode(bb.buffer_)[i].shared > 0

\* The offsets of the entries whose index, from 0, is a multiple of interval.
RestartEntryOffsets(entries, interval) ==
  LET idx == {i \in 1..Len(entries) : (i - 1) % interval = 0}
  IN [j \in 1..Cardinality(idx) |-> entries[(j - 1) * interval + 1].offset]

\* shared_bytes is 0 at the restart entries and the length of the longest
\* common prefix with the previous key at the others.
SharedBytesAsDocumented(entries, interval) ==
  \A i \in 1..Len(entries) :
    entries[i].shared =
      IF (i - 1) % interval = 0 THEN 0
      ELSE CommonPrefix(entries[i - 1].key, entries[i].key)

\* C6 as stated: the restart array is exactly the offsets of the entries
\* whose index is a multiple of block_restart_interval, and shared_bytes is
\* as documented.
C6_RestartArrayIsRestartEntryOffsets ==
  bb.finished_ =>
    /\ BlockRestarts(bb.buffer_)
         = RestartEntryOffsets(BlockDecode(bb.buffer_), bb.block_restart_interval)
    /\ SharedBytesAsDocumented(BlockDecode(bb.buffer_), bb.block_restart_interval)

\* C6 amended: as stated for a block with at least one entry, built under
\* one block_restart_interval; the restart array of a block with no entry
\* holds the single offset 0.
C6_RestartSpacing ==
  bb.finished_ =>
    /\ BlockRestarts(bb.buffer_)
         = IF bbAdded = <<>> THEN <<0>>
           ELSE RestartEntryOffsets(BlockDecode(bb.buffer_), bb.block_restart_interval)
    /\ SharedBytesAsDocumented(BlockDecode(bb.buffer_), bb.block_restart_interval)

\* A finished block whose last entry is a restart entry that has a common
\* prefix with the key before it.
C6_Witness ==
  /\ bb.finished_
  /\ Len(bbAdded) = 3
  /\ bb.block_restart_interval = 2
  /\ CommonPrefix(bbAdded[2][1], bbAdded[3][1]) > 0
  /\ CommonPrefix(bbAdded[1][1], bbAdded[2][1]) > 0
\* The number of entries of the offset array of the finished filter block,
\* as a reader finds it.
FilterNumEntries == FilterBlockReader_New(fb.result_).num_

\* C7 as stated: after StartBlock calls with non-decreasing offsets, AddKey
\* calls and Finish, the offset array has max_i(off_i / 2048) + 1 entries.
C7_OffsetArrayHasMaxPlusOneEntries ==
  (fbHist.finished /\ fbHist.monotone /\ fbHist.started) =>
    FilterNumEntries = fbHist.maxIndex + 1

\* C7 amended: the offset array has max_i(off_i / 2048) entries (0 without a
\* StartBlock call), and one more exactly when a key was added after the last
\* StartBlock call whose off / 2048 was above 0 and above that of all earlier
\* calls (after construction, when there is no such call).
C7_OffsetArrayLength ==
  (fbHist.finished /\ fbHist.monotone) =>
    FilterNumEntries = fbHist.maxIndex + (IF fbHist.pending THEN 1 ELSE 0)

\* A finished block over three windows, the last with a key waiting at
\* Finish, an earlier one closed by StartBlock.
C7_Witness ==
  /\ fbHist.finished
  /\ fbHist.monotone
  /\ fbHist.maxIndex = 2
  /\ fbHist.pending
  /\ fbHist.nkeys = 2
  /\ \E e \in fbHist.under : e[1] = 0
  /\ FilterNumEntries = 3

\* C8: with non-decreasing StartBlock offsets, KeyMayMatch(off, k) on the
\* finished block is true for every key k added after a StartBlock(off) call
\* and before the next StartBlock call.
C8_NoFalseNegativeUnderOwnOffset ==
  (fr.asked /\ fbHist.monotone /\ <<fr.block_offset, fr.key>> \in fbHist.under) =>
    fr.result

\* A key of the third window is found by a filter that tells keys apart,
\* another key having been added in the first window.
C8_Witness ==
  /\ fr.asked
  /\ fbHist.monotone
  /\ policy_ = "hash"
  /\ <<fr.block_offset, fr.key>> \in fbHist.under
  /\ fr.block_offset \div kFilterBase = 2
  /\ \E e \in fbHist.under : e[1] = 0 /\ PolicyHash(e[2]) # PolicyHash(fr.key)
  /\ fr.result

\* C9: after Finish returned OK, the index block in the file holds one entry
\* per data block written, in the order written, the value of the i-th being
\* the encoded handle (offset, size) of the i-th data block.
C9_IndexEntryPerDataBlock ==
  tbHist.finish = "OK" => IndexHandles(file) = tbHist.blocks

\* A finished table of three data blocks with a filter block.
C9_Witness ==
  /\ tbHist.finish = "OK"
  /\ Len(tbHist.blocks) = 3
  /\ HasFilter(rep_)
  /\ Len(IndexHandles(file)) = 3

\* The footer of a file of "size" bytes: both handles lie before it, the
\* index block ends where it starts.
FooterSelfConsistent(footer, size) ==
  /\ footer.magic = kTableMagicBytes
  /\ HandleInside(footer.metaindex_handle, size - kEncodedLength)
  /\ HandleInside(footer.index_handle, size - kEncodedLength)
  /\ footer.index_handle.offset + footer.index_handle.size + kBlockTrailerSize
       = size - kEncodedLength

\* C10: after Finish returned OK, the file ends with a footer whose
\* metaindex_handle and index_handle describe ranges [offset, offset + size
\* + 5) inside the file before the footer, the index block immediately
\* precedes the footer, and FileSize() is the length of the file.
C10_FooterHandlesInsideFile ==
  tbHist.finish = "OK" =>
    /\ Len(file) >= kEncodedLength
    /\ FooterSelfConsistent(Footer_DecodeFrom(file), Len(file))
    /\ FileSize(rep_) = Len(file)

\* A finished table with two data blocks, the first of which went through
\* Snappy, and a filter block.
C10_Witness ==
  /\ tbHist.finish = "OK"
  /\ Len(tbHist.blocks) = 2
  /\ HasFilter(rep_)
  /\ BlockType(file, tbHist.blocks[1]) = kSnappyCompression
  /\ FileSize(rep_) > kEncodedLength

(***************************************************************************)
(* C11  Every index entry the TableBuilder has emitted belongs to a        *)
(* flushed data block, and its key is >= the last key added to that block  *)
(* and, when a key was added after that block, < the first key added to    *)
(* the next data block (the comparator being the bytewise one, which       *)
(* keeps the FindShortestSeparator / FindShortSuccessor contracts).        *)
(***************************************************************************)
C11_IndexKeySeparatesBlocks ==
  \A i \in 1..Len(tbHist.index) :
    /\ i <= Len(tbHist.ends)
    /\ BytewiseCompare(tbHist.index[i], tbHist.added[tbHist.ends[i]]) >= 0
    /\ tbHist.ends[i] < Len(tbHist.added) =>
         BytewiseCompare(tbHist.index[i], tbHist.added[tbHist.ends[i] + 1]) < 0

\* A finished table of two data blocks whose first index key is a separator
\* shorter than the block's last key.
C11_Witness ==
  /\ tbHist.finish = "OK"
  /\ Len(tbHist.index) = 2
  /\ tbHist.index[1] # tbHist.added[tbHist.ends[1]]
  /\ Len(tbHist.index[1]) < Len(tbHist.added[tbHist.ends[1]])

(***************************************************************************)
(* C12  Once a call on the file has failed, every later step leaves        *)
(* status() at that first error, appends nothing to the file and leaves    *)
(* offset, num_entries and the index block as they were; a Finish called   *)
(* then returns that error.                                                *)
(***************************************************************************)
C12_FirstErrorIsLatched ==
  [][status(rep_) # "OK" =>
       /\ status(rep_') = status(rep_)
       /\ file' = file
       /\ rep_'.offset = rep_.offset
       /\ NumEntries(rep_') = NumEntries(rep_)
       /\ rep_'.index_block = rep_.index_block
       /\ (rep_'.closed /\ ~rep_.closed /\ tbHist'.finish # "abandoned" =>
             tbHist'.finish = status(rep_))]_vars

\* The flush inside the second Add failed at its first Append, and a later
\* Finish returned that error.
C12_Witness ==
  /\ rep_.options.block_size = 16
  /\ NumEntries(rep_) = 2
  /\ file = <<>>
  /\ status(rep_) = "IOError: Append"
  /\ rep_.closed
  /\ tbHist.finish = "IOError: Append"

(***************************************************************************)
(* C13  closed never goes back to false and becomes true only in a step    *)
(* of Finish or Abandon; every call made on a closed builder (Add, Flush,  *)
(* Finish, Abandon) fails assert(!r->closed) and appends nothing to the    *)
(* file.                                                                   *)
(***************************************************************************)
C13_ClosedIsFinal ==
  [][/\ (rep_.closed => rep_'.closed)
     /\ (~rep_.closed /\ rep_'.closed => TBFinish \/ TBAbandon)
     /\ (rep_.closed =>
           /\ tbHist'.aborted = "assert(!r->closed)"
           /\ file' = file
           /\ rep_' = rep_)]_vars

\* A call was made on a builder that Finish had closed with OK.
C13_Witness ==
  /\ rep_.closed
  /\ tbHist.finish = "OK"
  /\ tbHist.aborted = "assert(!r->closed)"

\* Where the block that "handle" names ends, its trailer included.
BlockEnd(handle) == handle.offset + handle.size + kBlockTrailerSize

\* Where the data blocks end.
DataEnd(blocks) == IF blocks = <<>> THEN 0 ELSE BlockEnd(blocks[Len(blocks)])

\* The data blocks lie one after the other from the start of the file.
DataBlocksInARow(blocks) ==
  \A i \in 1..Len(blocks) :
    blocks[i].offset = (IF i = 1 THEN 0 ELSE BlockEnd(blocks[i - 1]))

\* The keys a block of the file decodes to.
BlockKeysAt(bytes, handle) ==
  [j \in 1..Len(BlockDecode(ReadBlock(bytes, handle))) |->
     BlockDecode(ReadBlock(bytes, handle))[j].key]

\* The i-th data block of the file holds the keys added between the flush
\* before it and its own.
DataBlocksHoldAddedKeys ==
  \A i \in 1..Len(tbHist.blocks) :
    BlockKeysAt(file, tbHist.blocks[i]) =
      SubSeq(tbHist.added, (IF i = 1 THEN 0 ELSE tbHist.ends[i - 1]) + 1, tbHist.ends[i])

\* The entries of the meta-index block of a finished table file.
MetaEntries(bytes) ==
  BlockDecode(ReadBlock(bytes, Footer_DecodeFrom(bytes).metaindex_handle))

\* From offset "from": the filter block, named by the one entry of the
\* meta-index block, then the meta-index block.
FilterThenMetaindex(bytes, from, result_, name) ==
  /\ Len(MetaEntries(bytes)) = 1
  /\ MetaEntries(bytes)[1].key = name
  /\ EntryHandles(MetaEntries(bytes))[1].offset = from
  /\ ReadBlock(bytes, EntryHandles(MetaEntries(bytes))[1]) = result_
  /\ Footer_DecodeFrom(bytes).metaindex_handle.offset =
       BlockEnd(EntryHandles(MetaEntries(bytes))[1])

\* From offset "from": the meta-index block, empty, and no filter block.
MetaindexAlone(bytes, from) ==
  /\ MetaEntries(bytes) = <<>>
  /\ Footer_DecodeFrom(bytes).metaindex_handle.offset = from

\* The file is: the data blocks, the filter block if the builder has one,
\* the meta-index block, the index block, the footer, and nothing else.
TableLayout ==
  /\ DataBlocksInARow(tbHist.blocks)
  /\ DataBlocksHoldAddedKeys
  /\ IF HasFilter(rep_)
       THEN FilterThenMetaindex(file, DataEnd(tbHist.blocks), rep_.filter_block.result_,
                                FilterMetaKey(rep_.policy_))
       ELSE MetaindexAlone(file, DataEnd(tbHist.blocks))
  /\ Footer_DecodeFrom(file).index_handle.offset =
       BlockEnd(Footer_DecodeFrom(file).metaindex_handle)
  /\ IndexHandles(file) = tbHist.blocks
  /\ Len(file) = BlockEnd(Footer_DecodeFrom(file).index_handle) + kEncodedLength
  /\ Footer_DecodeFrom(file).magic = kTableMagicBytes

(***************************************************************************)
(* C14, as stated: a Finish that returns OK leaves the file as the data    *)
(* blocks, the filter block if and only if there is a filter policy, the   *)
(* meta-index block, the index block and the footer, each once, and        *)
(* writes no data block itself.                                            *)
(***************************************************************************)
C14_FinishWritesNoDataBlock ==
  /\ [](tbHist.finish = "OK" => TableLayout)
  /\ [][tbHist.finish = "none" /\ tbHist'.finish = "OK" =>
         tbHist'.blocks = tbHist.blocks]_vars

(***************************************************************************)
(* C14, amended: a Finish that returns OK leaves the file as the data      *)
(* blocks, the filter block if and only if there is a filter policy, the   *)
(* meta-index block, the index block and the footer, each once; Finish     *)
(* writes at most one data block, the pending one that the Flush it starts *)
(* with writes, which lies before the filter block.                        *)
(***************************************************************************)
C14_BlocksInOrder ==
  /\ [](tbHist.finish = "OK" => TableLayout)
  /\ [][tbHist.finish = "none" /\ tbHist'.finish = "OK" =>
         Len(tbHist'.blocks) <= Len(tbHist.blocks) + 1]_vars

\* A finished table with a filter block whose second data block Finish
\* wrote: its keys fill no block of 4096 bytes.
C14_Witness ==
  /\ tbHist.finish = "OK"
  /\ HasFilter(rep_)
  /\ rep_.options.block_size = 4096
  /\ Len(tbHist.blocks) = 2
  /\ tbHist.ends = <<1, 3>>
  /\ TableLayout

(***************************************************************************)
(* C15  ChangeOptions given another comparator returns InvalidArgument     *)
(* and leaves options, index_block_options and status as they were; given  *)
(* the same comparator it returns OK and options become the ones given;    *)
(* in every state the restart interval of the index block is 1.            *)
(***************************************************************************)
C15_ChangeOptions ==
  /\ [](/\ rep_.index_block_options.block_restart_interval = 1
        /\ rep_.index_block.block_restart_interval = 1)
  /\ [][tbHist'.given # <<>> =>
         IF tbHist'.given[1].comparator # rep_.options.comparator
           THEN /\ tbHist'.changed = "InvalidArgument"
                /\ rep_'.options = rep_.options
                /\ rep_'.index_block_options = rep_.index_block_options
                /\ status(rep_') = status(rep_)
           ELSE /\ tbHist'.changed = "OK"
                /\ rep_'.options = tbHist'.given[1]]_vars

\* ChangeOptions was refused another comparator after it had replaced the
\* restart interval 16 by 1 while the data block held a key.
C15_Witness ==
  /\ tbHist.changed = "InvalidArgument"
  /\ tbHist.given[1].comparator = "other"
  /\ rep_.options.block_restart_interval = 1
  /\ rep_.index_block_options.block_restart_interval = 1
  /\ ~BlockBuilder_empty(rep_.data_block)

(***************************************************************************)
(* C19  In every state of the TableBuilder, whatever calls on the file     *)
(* failed, pending_index_entry is true only if the data block is empty,    *)
(* and neither assert(r->data_block.empty()) in Add nor                    *)
(* assert(!r->pending_index_entry) in Flush has failed.                    *)
(***************************************************************************)
C19_PendingOnlyIfDataBlockEmpty ==
  /\ rep_.pending_index_entry => BlockBuilder_empty(rep_.data_block)
  /\ tbHist.aborted # "Add: assert(r->data_block.empty())"
  /\ tbHist.aborted # "Flush: assert(!r->pending_index_entry)"

\* An Add emitted the index entry of the first block; the second block was
\* written, its entry is pending, and the Flush of the file failed.
C19_Witness ==
  /\ rep_.pending_index_entry
  /\ BlockBuilder_empty(rep_.data_block)
  /\ Len(tbHist.index) = 1
  /\ Len(tbHist.blocks) = 2
  /\ status(rep_) = "IOError: Flush"

DidNotFit ==
  IF arHist'.op = "AllocateAligned"
    THEN arHist'.bytes + Slop(arena, Align(arHist.sizeof_ptr)) > arena.alloc_bytes_remaining_
    ELSE arHist'.bytes > arena.alloc_bytes_remaining_

\* The allocation of this step got a region of its own, of exactly its
\* size, and left the cursor and the remaining bytes as they were.
ServedFromDedicatedRegion ==
  /\ arena'.blocks_ =
       Append(arena.blocks_, [base |-> arHist'.result, size |-> arHist'.bytes])
  /\ arena'.alloc_ptr_ = arena.alloc_ptr_
  /\ arena'.alloc_bytes_remaining_ = arena.alloc_bytes_remaining_

(***************************************************************************)
(* C17, as stated: every allocation of more than kBlockSize / 4 = 1024     *)
(* bytes gets a region of its own of exactly that size, and the cursor     *)
(* and the remaining bytes of the current region stay as they were.        *)
(***************************************************************************)
C17_LargeRequestGetsOwnRegion ==
  [][arHist'.calls # arHist.calls /\ arHist'.bytes > kBlockSize \div 4 =>
       ServedFromDedicatedRegion]_vars

(***************************************************************************)
(* C17, amended: every allocation of more than kBlockSize / 4 = 1024 bytes *)
(* that does not fit the bytes remaining in the current region (for        *)
(* AllocateAligned: with its padding) gets a region of its own of exactly  *)
(* that size, and the cursor and the remaining bytes stay as they were.    *)
(***************************************************************************)
C17_LargeRequestThatDoesNotFit ==
  [][arHist'.calls # arHist.calls /\ arHist'.bytes > kBlockSize \div 4 /\ DidNotFit =>
       ServedFromDedicatedRegion]_vars

\* A request of 1025 bytes got its own region while the current region,
\* partly used, kept its cursor.
C17_Witness ==
  /\ arHist.bytes = kBlockSize \div 4 + 1
  /\ Len(arena.blocks_) >= 2
  /\ arena.blocks_[Len(arena.blocks_)] = [base |-> arHist.result, size |-> arHist.bytes]
  /\ arena.alloc_bytes_remaining_ > 0
  /\ arena.alloc_bytes_remaining_ < kBlockSize \div 4 + 1
  /\ arena.alloc_ptr_ < arHist.result

(***************************************************************************)
(* C18  Prev on a valid iterator at key k leaves it at the greatest key    *)
(* of the list that is less than k, and invalid when the list has no such  *)
(* key; a Prev that follows a Next whose result was valid leaves the       *)
(* iterator at the node that Next came from.                               *)
(***************************************************************************)
C18_PrevIsGreatestBelow ==
  [][SeqPrev =>
       /\ IF \E j \in hist.returned : j < nodeKey[rd.node_]
            THEN /\ Valid(rd')
                 /\ nodeKey[rd'.node_] \in hist.returned
                 /\ nodeKey[rd'.node_] < nodeKey[rd.node_]
                 /\ \A j \in hist.returned :
                      j < nodeKey[rd.node_] => j <= nodeKey[rd'.node_]
            ELSE ~Valid(rd')
       /\ (scan.from # nullptr => rd'.node_ = scan.from)]_vars

\* In the full list, a Prev has left the iterator at a key with keys on
\* both sides.
C18_Witness ==
  /\ rd.op = "Prev"
  /\ Valid(rd)
  /\ hist.returned = Keys
  /\ nodeKey[rd.node_] = 1
  /\ max_height_ > 1

(***************************************************************************)
(* C20  In every state, the states between the stores of an Insert in      *)
(* progress included, the nodes reached from head_ by the links of one     *)
(* level are in strictly ascending key order, end in nullptr without       *)
(* coming back to a node, and are a subsequence of the level-0 chain.      *)
(***************************************************************************)

\* The nodes reached from x by level-L links, x included, following at most
\* "fuel" links.
RECURSIVE ChainFrom(_, _, _, _)
ChainFrom(M, x, L, fuel) ==
  IF x \notin DOMAIN M.nodeKey \/ fuel = 0
    THEN <<>>
    ELSE <<x>> \o ChainFrom(M, Load(M, x, L), L, fuel - 1)

\* The level-L chain of the list: enough links are followed for a cycle to
\* show as a node that comes twice.
Chain(L) == ChainFrom(Mem, Load(Mem, head_, L), L, Cardinality(Nodes) + 1)

\* What the last node of the level-L chain links to.
ChainEnd(L) ==
  IF Chain(L) = <<>> THEN Load(Mem, head_, L)
                     ELSE Load(Mem, Chain(L)[Len(Chain(L))], L)

RECURSIVE IsSubsequence(_, _)
IsSubsequence(a, b) ==
  IF a = <<>> THEN TRUE
  ELSE IF b = <<>> THEN FALSE
  ELSE IF Head(a) = Head(b) THEN IsSubsequence(Tail(a), Tail(b))
  ELSE IsSubsequence(a, Tail(b))

C20_ChainsAscendingAndNested ==
  \A L \in 0..(kMaxHeight - 1) :
    /\ \A i \in 1..(Len(Chain(L)) - 1) :
         nodeKey[Chain(L)[i]] < nodeKey[Chain(L)[i + 1]]
    /\ \A i \in 1..Len(Chain(L)) : Chain(L)[i] # head_
    /\ Len(Chain(L)) < Cardinality(Nodes)
    /\ ChainEnd(L) = nullptr
    /\ IsSubsequence(Chain(L), Chain(0))

\* An Insert has linked its node at level 0, between two steps of its loop,
\* and not yet at level 1, where the list has another node.
C20_Witness ==
  /\ w.pc = "link_init"
  /\ w.i = 1
  /\ Len(Chain(0)) = 2
  /\ Len(Chain(1)) = 1
  /\ Chain(1)[1] # w.x
  /\ \E i \in 1..2 : Chain(0)[i] = w.x

(***************************************************************************)
(* C21  In every state, mid-Insert included, max_height_ is between 1 and  *)
(* kMaxHeight and at least the height of every node that some chain from   *)
(* head_ reaches; no step lowers it.                                       *)
(***************************************************************************)

\* The number of link slots NewNode gave the node.
NodeHeight(n) == Cardinality(DOMAIN next_[n])

\* The nodes some level's chain reaches from head_.
Reachable ==
  {n \in Nodes : \E L \in 0..(kMaxHeight - 1) :
                   \E i \in 1..Len(Chain(L)) : Chain(L)[i] = n}

C21_MaxHeightCoversReachableNodes ==
  /\ [](/\ max_height_ >= 1
        /\ max_height_ <= kMaxHeight
        /\ \A n \in Reachable : NodeHeight(n) <= max_height_)
  /\ [][max_height_' >= max_height_]_vars

\* The Insert in progress has raised max_height_ for its node, which level 0
\* already reaches while level 1 does not.
C21_Witness ==
  /\ w.pc = "link_init"
  /\ w.i = 1
  /\ w.x \in Reachable
  /\ NodeHeight(w.x) = max_height_
  /\ \A n \in Nodes \ {head_, w.x} : NodeHeight(n) < max_height_
  /\ Nodes \ {head_, w.x} # {}

(***************************************************************************)
(* C22  As stated: in every interleaving, every node the level-0 chain     *)
(* reaches has all its links of levels 1..height-1 written.                *)
(***************************************************************************)
C22_ReachableNodeFullyLinked ==
  \A i \in 1..Len(Chain(0)) :
    \A L \in DOMAIN next_[Chain(0)[i]] : next_[Chain(0)[i]][L] # Uninit

\* C22, amended: in every interleaving, every node the level-L chain reaches
\* has its key and its links of levels 0..L written (a link above L may be
\* unwritten while the node's Insert is in progress), and its link of each
\* of these levels is nullptr or a node of a greater key; no reader has
\* loaded an unwritten link.
C22_ReachableNodeLinkedUpToItsLevel ==
  /\ ~torn
  /\ \A L \in 0..(kMaxHeight - 1) : \A i \in 1..Len(Chain(L)) :
       /\ Chain(L)[i] \in DOMAIN nodeKey
       /\ \A l \in 0..L :
            /\ l \in DOMAIN next_[Chain(L)[i]]
            /\ \/ next_[Chain(L)[i]][l] = nullptr
               \/ /\ next_[Chain(L)[i]][l] \in Nodes \ {head_}
                  /\ nodeKey[next_[Chain(L)[i]][l]] > nodeKey[Chain(L)[i]]

\* The reader's search stands, at level 0, on a node the level-0 chain
\* reaches and whose level-1 link the writer has not written yet.
C22_Witness ==
  /\ rd.pc = "search"
  /\ rd.f.x = w.x
  /\ rd.f.level = 0
  /\ w.pc \in {"link_init", "link_publish"}
  /\ \E i \in 1..Len(Chain(0)) : Chain(0)[i] = w.x
  /\ 1 \in DOMAIN next_[w.x]
  /\ next_[w.x][1] = Uninit

(***************************************************************************)
(* What the file was asked to append, as the file saw it.                  *)
(***************************************************************************)

\* The Appends the file accepted.
Accepted == SelectSeq(tbHist.appends, LAMBDA a : a.ok)

\* An Append has failed.
AppendFailed == \E i \in 1..Len(tbHist.appends) : ~tbHist.appends[i].ok

RECURSIVE SumSizes(_)
SumSizes(appends) ==
  IF appends = <<>> THEN 0 ELSE Head(appends).size + SumSizes(Tail(appends))

\* Blocks go out as contents then trailer, the footer last and alone: the
\* last accepted Append is the contents of a block without its trailer when
\* the accepted Appends are odd in number and the one after failed.
ContentsWithoutTrailer ==
  IF AppendFailed /\ Len(Accepted) % 2 = 1 THEN Accepted[Len(Accepted)].size ELSE 0

(***************************************************************************)
(* C23  When an Append of block contents or of a trailer fails, status     *)
(* holds the error and the offset stays where it was: in every state       *)
(* FileSize() is the sum of the blocks whose contents and trailer were     *)
(* both accepted (and of the footer), and a failed Append is the last one  *)
(* the file was asked for.                                                 *)
(***************************************************************************)
C23_FailedBlockIsNotCounted ==
  /\ AppendFailed =>
       /\ status(rep_) = "IOError: Append"
       /\ \A i \in 1..(Len(tbHist.appends) - 1) : tbHist.appends[i].ok
  /\ FileSize(rep_) =
       SumSizes(SubSeq(Accepted, 1, Len(Accepted) - (IF ContentsWithoutTrailer > 0 THEN 1 ELSE 0)))
  /\ \A i \in 1..Len(Accepted) :
       (i % 2 = 0) => Accepted[i].size = kBlockTrailerSize

\* After one block written in full, the contents of the next were accepted
\* and its trailer was not.
C23_Witness ==
  /\ status(rep_) = "IOError: Append"
  /\ Len(Accepted) = 3
  /\ Len(tbHist.appends) = 4
  /\ tbHist.appends[4].size = kBlockTrailerSize
  /\ FileSize(rep_) = Accepted[1].size + kBlockTrailerSize
  /\ Len(file) > FileSize(rep_)

(***************************************************************************)
(* C24  As stated: in every state FileSize() equals the number of bytes    *)
(* the file has accepted through successful Append calls.                  *)
(***************************************************************************)
C24_FileSizeIsBytesAccepted ==
  FileSize(rep_) = SumSizes(Accepted)

\* C24, amended: in every state FileSize() equals the number of bytes the
\* file has accepted, except after a block whose contents were accepted and
\* whose trailer failed: then it is less by the size of those contents.
C24_FileSizeIsBytesAcceptedButLostContents ==
  /\ Len(file) = SumSizes(Accepted)
  /\ FileSize(rep_) = Len(file) - ContentsWithoutTrailer
  /\ status(rep_) # "IOError: Append" => FileSize(rep_) = Len(file)

\* The contents of the first block were accepted and its trailer was not:
\* the file holds bytes and FileSize() is 0.
C24_Witness ==
  /\ status(rep_) = "IOError: Append"
  /\ ContentsWithoutTrailer > 0
  /\ FileSize(rep_) = 0
  /\ Len(file) = ContentsWithoutTrailer
  /\ rep_.closed

(***************************************************************************)
(* C27  The handles of the blocks written in full: the first has offset 0, *)
(* each later one starts where the one before ends, trailer included, and  *)
(* each size is the number of bytes the file accepted as that block's      *)
(* contents; the ranges end at FileSize() less the footer.                 *)
(***************************************************************************)
C27_HandlesTileTheFile ==
  /\ \A i \in 1..Len(tbHist.handles) :
       /\ tbHist.handles[i].offset =
            (IF i = 1 THEN 0
                      ELSE tbHist.handles[i - 1].offset + tbHist.handles[i - 1].size
                             + kBlockTrailerSize)
       /\ 2 * i <= Len(Accepted)
       /\ tbHist.handles[i].size = Accepted[2 * i - 1].size
       /\ Accepted[2 * i].size = kBlockTrailerSize
  /\ Len(Accepted) \div 2 = Len(tbHist.handles)
  /\ FileSize(rep_) =
       (IF tbHist.handles = <<>> THEN 0
          ELSE tbHist.handles[Len(tbHist.handles)].offset
                 + tbHist.handles[Len(tbHist.handles)].size + kBlockTrailerSize)
       + (IF Len(Accepted) % 2 = 1 /\ ~AppendFailed THEN kEncodedLength ELSE 0)

\* A finished table of two data blocks, a filter block, the meta-index
\* block and the index block.
C27_Witness ==
  /\ tbHist.finish = "OK"
  /\ Len(tbHist.handles) = 5
  /\ tbHist.handles[2].offset > 0
  /\ tbHist.handles[5].offset + tbHist.handles[5].size + kBlockTrailerSize + kEncodedLength
       = Len(file)

(***************************************************************************)
(* C28  With the keys given to Add in strictly ascending order and any     *)
(* flush points, the keys added to the index block, by Add and by Finish,  *)
(* are strictly ascending, and no assertion of BlockBuilder::Add fails.    *)
(***************************************************************************)
C28_IndexKeysAscending ==
  /\ \A i \in 1..(Len(tbHist.index) - 1) :
       BytewiseCompare(tbHist.index[i + 1], tbHist.index[i]) > 0
  /\ tbHist.aborted # "BlockBuilder::Add: assert"

\* A finished table of three data blocks: the first index key is a
\* separator shorter than the key it stands for, the last one Finish made
\* as a successor.
C28_Witness ==
  /\ tbHist.finish = "OK"
  /\ Len(tbHist.index) = 3
  /\ Len(tbHist.added) = 3
  /\ Len(tbHist.index[1]) < Len(tbHist.added[tbHist.ends[1]])
  /\ tbHist.index[3] # tbHist.added[3]

(***************************************************************************)
(* C29  As stated: KeyMayMatch(block_offset, key) on the finished block is *)
(* false for every key when the range of the offset array for              *)
(* index = block_offset >> base_lg is empty, and true when index is out of *)
(* range of the offset array.                                              *)
(***************************************************************************)

\* The reader KeyMayMatch was asked on.
AskedReader == FilterBlockReader_New(fb.result_)

\* "start" and "limit" of the filter the query looks up.
AskedStart ==
  DecodeFixed32(AskedReader.data_,
                AskedReader.offset_ + FilterIndex(AskedReader, fr.block_offset) * 4)

AskedLimit ==
  DecodeFixed32(AskedReader.data_,
                AskedReader.offset_ + FilterIndex(AskedReader, fr.block_offset) * 4 + 4)

C29_EmptyRangeMatchesNothing ==
  fr.asked =>
    IF FilterIndex(AskedReader, fr.block_offset) < AskedReader.num_
      THEN AskedStart = AskedLimit => ~fr.result
      ELSE fr.result

(***************************************************************************)
(* C30  While the StartBlock calls began with StartBlock(0) and came with  *)
(* non-decreasing offsets, whatever AddKey calls lie between them, the     *)
(* assertion of StartBlock has not failed and, from a StartBlock(off) to   *)
(* the next call of StartBlock or Finish, the filters emitted are          *)
(* off / 2048 in number.  The same holds of the filter block of a          *)
(* TableBuilder, which calls StartBlock(0) when made and                   *)
(* StartBlock(offset) in Flush.                                            *)
(***************************************************************************)
C30_OneFilterPerWindowBelowOffset ==
  /\ (fbHist.started /\ fbHist.first = 0 /\ fbHist.monotone) =>
       /\ ~fbHist.aborted
       /\ ~fbHist.finished =>
            Len(fb.filter_offsets_) = fbHist.last \div kFilterBase
  /\ tbHist.aborted # "StartBlock: assert"
  /\ (HasFilter(rep_) /\ ~rep_.closed) =>
       Len(rep_.filter_block.filter_offsets_) = FileSize(rep_) \div kFilterBase

\* After StartBlock(0), a key and a StartBlock that skipped a window, two
\* filters are out, the second without keys.
C30_Witness ==
  /\ fbHist.started
  /\ fbHist.first = 0
  /\ fbHist.monotone
  /\ ~fbHist.finished
  /\ fbHist.last = 2 * kFilterBase
  /\ fbHist.under = {<<0, <<97>>>>}
  /\ Len(fb.filter_offsets_) = 2
  /\ fb.filter_offsets_[2] = Len(fb.result_)
  /\ policy_ = "hash"

(***************************************************************************)
(* C25  A read operation (Contains, Seek, SeekToLast, Prev) that has       *)
(* started returns after finitely many steps of the reader, however the    *)
(* writer's steps fall between them and also when the writer stops for     *)
(* good in the middle of an Insert.                                        *)
(***************************************************************************)
C25_ReadOperationsReturn ==
  (rd.pc # "idle") ~> (rd.pc = "idle")

\* SeekToLast has returned the node of an Insert that is still linking its
\* upper level.
C25_Witness ==
  /\ rd.pc = "idle"
  /\ rd.op = "SeekToLast"
  /\ rd.node_ = w.x
  /\ w.pc = "link_publish"
  /\ w.i = 1
  /\ max_height_ = 2

(***************************************************************************)
(* C26  A Contains(k) that the reader started after the writer's Insert(k) *)
(* had returned returns true, whatever Inserts of other keys run between   *)
(* its steps.                                                              *)
(***************************************************************************)
C26_InsertedKeyStaysFound ==
  (rd.op = "Contains" /\ rd.pc = "idle" /\ hist.known) => rd.result

\* Contains(k) has returned true while the Insert of a smaller key had
\* linked its node at level 0, in front of k, and not yet at level 1.
C26_Witness ==
  /\ rd.op = "Contains"
  /\ rd.pc = "idle"
  /\ hist.known
  /\ rd.result
  /\ w.pc = "link_init"
  /\ w.i = 1
  /\ w.key < rd.key
  /\ w.key \notin hist.returned

(***************************************************************************)
(* C33  Whatever was added, the byte string Finish returns is as long as   *)
(* CurrentSizeEstimate() said just before the call: the buffer, 4 bytes    *)
(* for each restart and 4 more.                                            *)
(***************************************************************************)
C33_EstimateIsFinishedLength ==
  [][BBFinish =>
       /\ Len(bb'.buffer_) = BlockBuilder_CurrentSizeEstimate(bb)
       /\ Len(bb'.buffer_) = Len(bb.buffer_) + 4 * Len(bb.restarts_) + 4]_vars

\* A finished block of three entries and two restarts.
C33_Witness ==
  /\ bb.finished_
  /\ Len(bbAdded) = 3
  /\ Len(bb.restarts_) = 2
  /\ BlockNumRestarts(bb.buffer_) = 2
  /\ Len(bb.buffer_) > 12 + 3 * 3

(***************************************************************************)
(* C32  Over any sequence of Allocate and AllocateAligned, no two of the   *)
(* regions returned share a byte, each lies inside one of the blocks       *)
(* AllocateNewBlock made, and the cursor with the remaining-byte count     *)
(* stays inside the current region.                                        *)
(***************************************************************************)

\* The first address after the region.
RegionEnd(r) == r.base + r.size

\* Whether region r lies inside region b.
Inside(r, b) == b.base <= r.base /\ RegionEnd(r) <= RegionEnd(b)

\* C32: the regions returned are disjoint, each lies inside one block, the
\* blocks are disjoint, and the cursor's remaining bytes end inside the
\* current block.
C32_RegionsDisjointInsideBlocks ==
  /\ \A i, j \in 1..Len(arHist.regions) :
       i < j => \/ RegionEnd(arHist.regions[i]) <= arHist.regions[j].base
                \/ RegionEnd(arHist.regions[j]) <= arHist.regions[i].base
  /\ \A i \in 1..Len(arHist.regions) :
       \E k \in 1..Len(arena.blocks_) : Inside(arHist.regions[i], arena.blocks_[k])
  /\ \A i, j \in 1..Len(arena.blocks_) :
       i < j => RegionEnd(arena.blocks_[i]) <= arena.blocks_[j].base
  /\ IF arHist.current = 0
       THEN arena.alloc_bytes_remaining_ = 0
       ELSE Inside([base |-> arena.alloc_ptr_, size |-> arena.alloc_bytes_remaining_],
                   arena.blocks_[arHist.current])

\* Three regions of the current block, the second behind padding, then a
\* region in a block of its own, with bytes remaining in the current block.
C32_Witness ==
  /\ Len(arHist.regions) = 4
  /\ Len(arena.blocks_) = 2
  /\ arHist.current = 1
  /\ \A i \in 1..3 : Inside(arHist.regions[i], arena.blocks_[1])
  /\ arHist.regions[2].base > RegionEnd(arHist.regions[1])
  /\ arHist.regions[4] = arena.blocks_[2]
  /\ arena.alloc_bytes_remaining_ > 0

(***************************************************************************)
(* C31  A FindTable that fails caches nothing, so the next call for the    *)
(* file number opens the file again; the .sst name is the fallback of the  *)
(* .ldb name.                                                              *)
(***************************************************************************)

\* The FindTable call of this step found no entry and went to the files.
FindTableMissed == TCFindTable /\ tcHist'.tried # <<>>

\* The call of this step met a file that opens under neither name, or a file
\* that Table::Open refuses.
FindTableMetFailure ==
  \/ ~tcHist'.env.ldb /\ ~tcHist'.env.sst
  \/ ~tcHist'.env.open

\* The cache holds the table of file_number, read from the file named ext.
TableCached(cache, file_number, ext) ==
  \E e \in cache :
    /\ e.key = EncodeFixed64(file_number)
    /\ e.value = [file |-> [number |-> file_number, ext |-> ext],
                  table |-> [file |-> [number |-> file_number, ext |-> ext]]]

\* A failed call returns the error, inserts nothing and leaves the handle null.
FailureIsNotCached ==
  FindTableMissed /\ FindTableMetFailure =>
    /\ tcHist'.s # "OK"
    /\ tcHist'.s = IF ~tcHist'.env.ldb /\ ~tcHist'.env.sst
                     THEN Env_NewRandomAccessFile(tcHist'.env,
                                                  TableFileName(tcHist'.file_number))
                     ELSE Table_Open(tcHist'.env)
    /\ cache_' = cache_
    /\ tcHist'.handle = NoCacheHandle

\* A call for a file number whose last call failed opens the file again, and
\* returns OK with the table cached when the file opens and Table::Open
\* accepts it.
FailureIsRetried ==
  TCFindTable /\ tcHist'.file_number \in tcHist.failed =>
    /\ tcHist'.tried # <<>>
    /\ Head(tcHist'.tried) = TableFileName(tcHist'.file_number)
    /\ (tcHist'.env.ldb \/ tcHist'.env.sst) /\ tcHist'.env.open =>
         /\ tcHist'.s = "OK"
         /\ tcHist'.handle = EncodeFixed64(tcHist'.file_number)
         /\ Cache_Lookup(cache_', EncodeFixed64(tcHist'.file_number)) = tcHist'.handle

\* The call of this step returned OK and cached the table read from the .sst
\* name.
OldNameIsCached ==
  /\ tcHist'.s = "OK"
  /\ tcHist'.handle = EncodeFixed64(tcHist'.file_number)
  /\ TableCached(cache_', tcHist'.file_number, "sst")

\* C31, as stated: a FindTable whose file opens under neither name, or whose
\* Table::Open fails, returns the error, inserts nothing and leaves the handle
\* null, so that a later call for the file number retries; and whenever the
\* .ldb open fails and the .sst open succeeds the result is OK and the table
\* is cached.  It is violated: Table::Open can refuse the .sst file.
C31_OldNameAlwaysCached ==
  [][/\ FailureIsNotCached
     /\ FailureIsRetried
     /\ (FindTableMissed /\ ~tcHist'.env.ldb /\ tcHist'.env.sst => OldNameIsCached)]_vars

\* C31, amended: a FindTable whose file opens under neither name, or whose
\* Table::Open fails, returns the error, inserts nothing and leaves the handle
\* null, so that a later call for the file number retries and succeeds once
\* the file is openable; when the .ldb open fails, the .sst open succeeds and
\* Table::Open succeeds, the result is OK and the table is cached.
C31_FailureNotCachedOldNameCached ==
  [][/\ FailureIsNotCached
     /\ FailureIsRetried
     /\ (FindTableMissed /\ ~tcHist'.env.ldb /\ tcHist'.env.sst /\ tcHist'.env.open
           => OldNameIsCached)]_vars

\* A call failed, and the next call for the same file number opened the .sst
\* name after the .ldb name failed, returned OK and cached the table.
C31_Witness ==
  /\ tcHist.op = "FindTable"
  /\ tcHist.retried
  /\ tcHist.s = "OK"
  /\ tcHist.file_number = 257
  /\ tcHist.tried = <<TableFileName(257), SSTTableFileName(257)>>
  /\ tcHist.handle = EncodeFixed64(257)
  /\ TableCached(cache_, 257, "sst")
  /\ tcHist.failed = {1}

====
